---- MODULE Spec2Model ----
(***************************************************************************)
(* State-machine model of the CINoptic fulldome player's scene subsystem   *)
(* (src/components/Scene.tsx) together with the parts of src/App.tsx that  *)
(* feed it its props.                                                      *)
(*                                                                         *)
(* Numbers.  The program computes in IEEE doubles; the model uses scaled   *)
(* integers and draws its inputs so that the arithmetic is exact wherever  *)
(* that is possible:                                                       *)
(*   - field of view: units of 1/FovScale degree.  handleWheel adds        *)
(*     deltaY * 0.05 degrees, i.e. exactly deltaY units.                   *)
(*   - positions: <<x, y, z>> in units of 1/100, so the default            *)
(*     position (0, -0.07, 0.07) is <<0, -7, 7>>.                          *)
(*   - orientations: <<yaw, pitch>> in units of 1/10 degree, yaw           *)
(*     about the world Y axis and pitch about the camera's X axis, zero    *)
(*     roll.  <<0, 0>> is the identity quaternion.  The gyroscope inputs   *)
(*     are drawn with alpha and gamma either null or 0, which keeps the    *)
(*     smoothing quaternions in the one-parameter family of rotations      *)
(*     about X, where slerp is linear interpolation of the pitch angle.    *)
(*   - surface rotations: radians in units of pi/180000, so degToRad is a  *)
(*     multiplication by 1000.                                             *)
(*   - texture coordinates and sines/cosines: units of 1/1000, evaluated   *)
(*     on mesh vertices whose angles are whole multiples of 45 degrees.    *)
(*                                                                         *)
(* Library calls.  Scene.tsx drives the camera through three.js /          *)
(* @react-three/drei objects.  Their effect on the modelled state follows  *)
(* the libraries' documented behaviour:                                    *)
(*   - Object3D.lookAt(0,0,0) sets the orientation from the position;      *)
(*   - OrbitControls(camera) saves the camera position at construction     *)
(*     (position0); update() keeps the camera on a sphere about the target *)
(*     (the origin: panning is off) with the radius clamped to             *)
(*     [minDistance, maxDistance] and makes it look at the target;         *)
(*     reset() copies position0 back into the camera and calls update();   *)
(*     drei calls update() once per frame while the controls are enabled;  *)
(*   - React runs a component's effects after the render that changed      *)
(*     their dependencies, children before parents, and finishes them      *)
(*     before the next event is handled, so an event handler together with *)
(*     the effects it triggers is one step of the model.                   *)
(***************************************************************************)
EXTENDS Integers, Sequences, FiniteSets, TLC

VARIABLES
    phase,               \* position of the mount sequence
    camera,              \* useThree().camera: the store's active camera object
    cams,                \* the camera objects: fov, position, up, quaternion
    isMotionEnabled,     \* App state
    projectionMode,      \* App state
    domeTilt,            \* App state
    resetCameraTrigger,  \* App state, passed as resetTrigger
    video,               \* App state: a video has been loaded (video !== null)
    targetQuaternion,    \* OrientationHandler ref
    currentQuaternion,   \* OrientationHandler ref
    orientationListener, \* a deviceorientation handler is attached to window
    zoomCamera,          \* camera the wheel/touch handlers close over, or NoCamera
    startDist,           \* closure variable of the zoom effect
    startFov,            \* closure variable of the zoom effect
    controlsObject,      \* camera the OrbitControls instance drives
    controlsEnabled,     \* OrbitControls.enabled
    position0,           \* OrbitControls.position0
    touches,             \* number of touch contacts on the canvas
    permissionApi,       \* the platform has DeviceOrientationEvent.requestPermission
    nResets,             \* history: how often the reset path has run
    capDist,             \* history: distance of the latest two-contact touchstart
    capFov,              \* history: fov at the latest two-contact touchstart
    gestureFresh,        \* history: start values captured since contacts last fell below two
    ticks,               \* history: smoothing steps taken (bounded by MaxTicks)
    lastOp,              \* history: the operation that produced this state
    lastArg,             \* history: distance of the touchmove, or beta of the complete
                         \* sample, that produced this state; 1 for a permission
                         \* request that was granted; else 0
    uvWrites,            \* history: runs of DomeProjection's layout effect in the
                         \* step that produced this state
    errorMsg,            \* App state: an error message is set (errorMsg !== null)
    videoElement,        \* Scene prop: videoRef.current as of App's latest render
    orientationHandlers, \* number of deviceorientation handlers registered on window
    zoomHandlers,        \* number of (wheel, touchstart, touchmove) handler triples
                         \* registered on the canvas
    uv,                  \* the dome mesh's uv attribute as DomeProjection wrote it
    mediaError,          \* history: the video element reported an error since its
                         \* source was last set
    burst,               \* history: complete samples handled since the last frame
    showControls,        \* App state: the playback controls are visible
    isImmersive,         \* App state: the document is in fullscreen
    isUrlModalOpen,      \* App state: the remote-URL dialog is open
    isSettingsOpen,      \* App state: the settings panel is open
    timers,              \* pending window timeouts of resetControlsTimer, oldest first:
                         \* the (isUrlModalOpen, isSettingsOpen, errorMsg) each callback
                         \* closed over
    controlsTimerRef,    \* controlsTimerRef.current: index in timers of the timeout it
                         \* names, 0 if it names none that is pending
    messages,            \* AIAssistant state: the chat, a sequence of message kinds
    input,               \* AIAssistant state: the text of the input field
    isLoading,           \* AIAssistant state
    pending,             \* calls of getGeminiResponse awaited by the mounted assistant
    orphaned,            \* calls of getGeminiResponse awaited by an assistant that has
                         \* been unmounted since
    sent,                \* history: sends that passed handleSend's guard
    replies,             \* history: assistant messages appended after a send
    videoUrl,            \* App state: video.url, <<>> while video is null
    playRequested,       \* history: play() was called for the current source
    embedded             \* history: <<url, tilt, autoplay>> of the settings panel whose
                         \* embed code the page was started from, <<>> if none

vars == <<phase, camera, cams, isMotionEnabled, projectionMode, domeTilt,
          resetCameraTrigger, video, targetQuaternion, currentQuaternion,
          orientationListener, zoomCamera, startDist, startFov, controlsObject,
          controlsEnabled, position0, touches, permissionApi, nResets, capDist, capFov,
          gestureFresh, ticks, lastOp, lastArg, uvWrites, errorMsg, videoElement,
          orientationHandlers, zoomHandlers, uv, mediaError, burst, showControls,
          isImmersive, isUrlModalOpen, isSettingsOpen, timers, controlsTimerRef,
          messages, input, isLoading, pending, orphaned, sent, replies, videoUrl,
          playRequested, embedded>>

appVars == <<isMotionEnabled, projectionMode, domeTilt, resetCameraTrigger, video>>
smoothVars == <<targetQuaternion, currentQuaternion>>
gestureVars == <<startDist, startFov, capDist, capFov, gestureFresh>>
controlsVars == <<controlsObject, controlsEnabled, position0>>
mediaVars == <<errorMsg, mediaError>>
handlerVars == <<orientationHandlers, zoomHandlers>>
shellVars == <<showControls, isImmersive, isUrlModalOpen, isSettingsOpen, timers,
               controlsTimerRef>>
chatVars == <<messages, input, isLoading, pending, orphaned, sent, replies>>
embedVars == <<videoUrl, playRequested, embedded>>

----------------------------------------------------------------------------
(* Bounds of the model *)

MaxResets == 2
MaxTimers == 2          \* timeouts of resetControlsTimer that may expire in a step
MaxTicks == 2
MaxSends == 2           \* sends that pass handleSend's guard
MaxTouches == 3

(* Program constants *)

FovScale == 20          \* 1 / sensitivity (0.05): fov units per degree
DefaultFovDeg == 75
MinFovDeg == 30
MaxFovDeg == 120
SlerpDivisor == 10      \* 1 / 0.1, the slerp factor
MinDistance == 1        \* minDistance 0.01, in position units of 1/100
QuarterTurnDeg == 90    \* q1 = (-sqrt(0.5), 0, 0, sqrt(0.5)): -90 degrees about X

DefaultFov == DefaultFovDeg * FovScale
MinFov == MinFovDeg * FovScale
MaxFov == MaxFovDeg * FovScale
Deg(d) == d * 10        \* d degrees in orientation units of 1/10 degree

NULL == <<>>            \* an angle the event does not carry; <<d>> is d degrees
NoCamera == "none"
R3FCamera == "r3f"
SceneCamera == "pc"
CameraIds == {R3FCamera, SceneCamera}

Origin == <<0, 0, 0>>
R3FDefaultPosition == <<0, 0, 500>>   \* the Canvas' own camera sits at z = 5
WorldUp == <<0, 1, 0>>
DefaultPosition == <<0, -7, 7>>
Identity == <<0, 0>>

(* Inputs *)

WheelDeltas == {-1000000, -1500, 1500, 1000000}
PoseWheelDeltas == {-1500}
TouchOffsets == {<<0, 0>>, <<30, 40>>, <<60, 80>>}
Alphas == {NULL, <<0>>}
Betas == {NULL, <<0>>, <<90>>}
Gammas == {NULL, <<0>>}
TiltValues == {0, 90}
InputTexts == {<<>>, <<" ">>, <<"h", "i">>, <<" ", "h", "i", " ">>}
Outcomes == {"text", "empty", "failed", "threw"}
ProjectionModes == {"dome", "flat"}
DragKinds == {"azimuth", "polar"}
PermissionStates == {"granted", "denied", "error"}
\* Values the tilt slider can deliver (min -90, max 90, step 1)
SliderValues == {-90, -1, 0, 45, 90}
\* Texts of the `tilt` query parameter, one character per element; the empty
\* text stands for an absent or empty parameter.
TiltParams == {<<>>, <<"0">>, <<"a", "b", "c">>, <<"1", "2", ".", "5">>,
               <<"-", "4", "5">>, <<"1", "2", "0">>, <<"-", "2", "0", "0">>}
\* Vertices of the dome mesh, as (polar angle, azimuth) in degrees: rows 0, 64
\* and 128 and columns 0, 32, 64, 96 and 128 of the 128 x 128 grid.
VertexThetas == {0, 45, 90}
VertexPhis == {0, 90, 180, 270, 360}
Vertices == VertexThetas \X VertexPhis
----------------------------------------------------------------------------
(* Pure functions *)

Abs(n) == IF n < 0 THEN -n ELSE n

\* THREE.MathUtils.clamp(value, min, max) = max(min, min(max, value))
Clamp(value, lo, hi) == IF value < lo THEN lo ELSE IF value > hi THEN hi ELSE value

\* Math.sqrt(dx * dx + dy * dy), for offsets whose distance is a whole number
IsqrtUpTo(n, r) == CHOOSE k \in 0..r : k * k <= n /\ (k + 1) * (k + 1) > n
TouchDistance(off) ==
    LET dx == off[1]
        dy == off[2]
    IN  IsqrtUpTo(dx * dx + dy * dy, Abs(dx) + Abs(dy))

\* Mutant: the wheel's result is not clamped.
WheelFovUnclamped(fov, deltaY) == fov + deltaY

\* handleWheel: clamp(camera.fov + e.deltaY * sensitivity, 30, 120)
WheelFov(fov, deltaY) == Clamp(fov + deltaY, MinFov, MaxFov)

\* Mutant: the zoom factor is inverted (dist / startDist).
PinchFovInverted(sFov, sDist, dist) ==
    Clamp((sFov * dist) \div sDist, 30 * FovScale, 120 * FovScale)

\* handleTouchMove: clamp(startFov * (startDist / dist), 30, 120).  With dist = 0
\* the quotient is +Infinity in IEEE arithmetic (startDist > 0 here), the product
\* is +Infinity and the clamp returns the upper limit.  Otherwise the quotient is
\* rounded down to a whole fov unit.
PinchFov(sFov, sDist, dist) ==
    IF dist = 0 THEN MaxFov
    ELSE Clamp((sFov * sDist) \div dist, MinFov, MaxFov)

\* Object3D.lookAt(0, 0, 0) with up = (0, 1, 0): the orientation of a camera at
\* position p that faces the origin.  Positions of the model lie on the
\* coordinate axes or on the diagonals of the coordinate planes through Y.
LookAtYaw(p) ==
    CASE p[1] = 0 /\ p[3] >= 0 -> Deg(0)
      [] p[1] > 0              -> Deg(90)
      [] p[1] = 0 /\ p[3] < 0  -> Deg(180)
      [] OTHER                 -> Deg(270)
LookAtPitch(p) ==
    CASE p[2] = 0                        -> Deg(0)
      [] p[1] = 0 /\ p[3] = 0 /\ p[2] > 0 -> Deg(-90)
      [] p[1] = 0 /\ p[3] = 0 /\ p[2] < 0 -> Deg(90)
      [] p[2] < 0                        -> Deg(45)
      [] OTHER                           -> Deg(-45)
LookAt(p) == IF p = Origin THEN Identity ELSE <<LookAtYaw(p), LookAtPitch(p)>>

\* euler.set(beta, alpha, -gamma, 'YXZ'); setFromEuler; multiply(q1), for gamma = 0:
\* yaw alpha about Y, then pitch beta about X, then q1's -90 degrees about X.
SetFromEulerTimesQ1(alpha, beta, gamma) ==
    <<Deg(alpha), Deg(beta) - Deg(QuarterTurnDeg)>>

\* Mutant: the smoothed orientation jumps to the target (factor 1).
SlerpWhole(cur, tgt) == <<cur[1], tgt[2]>>

\* Mutant: the smoothing restarts from the identity instead of the retained value.
SlerpFromIdentity(cur, tgt) ==
    <<cur[1], IF tgt[2] >= 0 THEN tgt[2] \div SlerpDivisor ELSE -((-tgt[2]) \div SlerpDivisor)>>

\* Quaternion.slerp(target, 0.1) between two rotations about X: the pitch moves a
\* tenth of the way to the target's (rounded toward the current value).
Slerp(cur, tgt) ==
    LET d == tgt[2] - cur[2]
        step == IF d >= 0 THEN d \div SlerpDivisor ELSE -((-d) \div SlerpDivisor)
    IN  <<cur[1], cur[2] + step>>

\* OrbitControls.update(): the camera stays where it is on its sphere about the
\* origin unless the radius is below minDistance, which in position units of
\* 1/100 only the origin is; spherical.makeSafe() then puts the camera straight
\* above the target at distance minDistance.  (maxDistance 250 is never
\* exceeded by a position of the model.)  The camera then looks at the target.
UpdatePosition(p, minDist) == IF p = Origin /\ minDist > 0 THEN <<0, minDist, 0>> ELSE p

\* An orbit drag moves the camera on its sphere about the origin: a quarter turn
\* in azimuth, or a reflection of the polar angle about the horizon.
Rotate(p, kind) ==
    IF kind = "azimuth" THEN <<p[3], p[2], -p[1]>> ELSE <<p[1], -p[2], p[3]>>

\* Integer division rounding toward zero
Quot(a, b) == IF a >= 0 THEN a \div b ELSE -((-a) \div b)

\* parseInt(text): an optional sign, then the longest run of decimal digits;
\* <<n>> for the number read, NaN when there is no digit to read.
NaN == <<>>
DigitChars == {"0", "1", "2", "3", "4", "5", "6", "7", "8", "9"}
DigitValue(c) ==
    CASE c = "0" -> 0 [] c = "1" -> 1 [] c = "2" -> 2 [] c = "3" -> 3 [] c = "4" -> 4
      [] c = "5" -> 5 [] c = "6" -> 6 [] c = "7" -> 7 [] c = "8" -> 8 [] c = "9" -> 9
RECURSIVE ParseDigits(_, _, _)
ParseDigits(text, i, acc) ==
    IF i > Len(text) \/ text[i] \notin DigitChars THEN acc
    ELSE ParseDigits(text, i + 1, acc * 10 + DigitValue(text[i]))
ParseInt(text) ==
    LET signed == Len(text) > 0 /\ text[1] \in {"-", "+"}
        start == IF signed THEN 2 ELSE 1
    IN  IF start > Len(text) \/ text[start] \notin DigitChars THEN NaN
        ELSE IF signed /\ text[1] = "-" THEN <<-ParseDigits(text, start, 0)>>
        ELSE <<ParseDigits(text, start, 0)>>

\* parseInt(tiltParam) || 0: NaN and 0 are falsy
TiltFromParam(text) ==
    IF ParseInt(text) = NaN \/ ParseInt(text) = <<0>> THEN 0 ELSE ParseInt(text)[1]

\* THREE.MathUtils.degToRad, with angles in radians held in units of pi / 180000
DegToRad(d) == d * 1000

\* Mutant: the scene clamps the tilt to [-90, 90].
SurfaceRotationClamped(mode, tilt) ==
    IF mode = "dome" THEN <<DegToRad(Clamp(tilt, -90, 90)), 0, 0>>
    ELSE <<DegToRad(90), DegToRad(180), 0>>

\* Rotation (x, y, z) of the rendered surface: DomeProjection's group
\* [degToRad(tilt), 0, 0] (its Sphere has rotation [0, 0, 0]); FlatProjection's
\* mesh [Math.PI / 2, Math.PI, 0].
SurfaceRotation(mode, tilt) ==
    IF mode = "dome" THEN <<DegToRad(tilt), 0, 0>>
    ELSE <<DegToRad(90), DegToRad(180), 0>>

\* Mutant: the video texture is bound whenever hasVideo is set.
MaterialWithoutElementCheck(mode, hasVideo, element) ==
    IF hasVideo
    THEN [kind |-> "videoTexture", side |-> IF mode = "dome" THEN "BackSide" ELSE "DoubleSide"]
    ELSE IF mode = "dome" THEN [kind |-> "gradientShader", side |-> "BackSide"]
    ELSE [kind |-> "flatColor", side |-> "DoubleSide"]

\* The material DomeProjection / FlatProjection render: hasVideo && videoElement
\* ? meshBasicMaterial with a videoTexture : the fallback.
Material(mode, hasVideo, element) ==
    IF mode = "dome"
    THEN IF hasVideo /\ element
         THEN [kind |-> "videoTexture", side |-> "BackSide"]
         ELSE [kind |-> "gradientShader", side |-> "BackSide"]
    ELSE IF hasVideo /\ element
         THEN [kind |-> "videoTexture", side |-> "DoubleSide"]
         ELSE [kind |-> "flatColor", side |-> "DoubleSide"]

\* Trigonometry on whole multiples of 45 degrees, values in units of 1/1000
CosDeg(a) ==
    LET m == a % 360
    IN  CASE m = 0 -> 1000
          [] m \in {45, 315} -> 707
          [] m \in {90, 270} -> 0
          [] m \in {135, 225} -> -707
          [] m = 180 -> -1000
SinDeg(a) == CosDeg(a - 90)
\* Math.acos, in degrees
AcosDeg(c) ==
    CASE c = 1000 -> 0 [] c = 707 -> 45 [] c = 0 -> 90 [] c = -707 -> 135 [] c = -1000 -> 180
\* Math.atan2(z, x), in degrees within (-180, 180]; a zero vector gives a zero
\* of either sign or +-180 degrees, which the mapping multiplies by r = 0.
Atan2Deg(z, x) ==
    CASE z = 0 /\ x >= 0 -> 0
      [] z = 0 /\ x < 0 -> 180
      [] x = 0 /\ z > 0 -> 90
      [] x = 0 /\ z < 0 -> -90
      [] z > 0 /\ x = z -> 45
      [] z > 0 /\ x = -z -> 135
      [] z < 0 /\ x = z -> -135
      [] z < 0 /\ x = -z -> -45

\* SphereGeometry's vertex at polar angle theta and azimuth phi, after
\* vec.normalize(): (-cos(phi) sin(theta), cos(theta), sin(phi) sin(theta))
UnitVertex(theta, phi) ==
    <<-Quot(CosDeg(phi) * SinDeg(theta), 1000),
      CosDeg(theta),
      Quot(SinDeg(phi) * SinDeg(theta), 1000)>>

\* Mutant: the radius is theta / (pi / 2), reaching 1 at the horizon.
DomeRadiusOfQuarterTurn(theta) == (theta * 1000) \div 90

\* r = theta / Math.PI, in units of 1/1000
DomeRadius(theta) == (theta * 1000) \div 180

\* DomeProjection's layout effect for one vertex: (u, v) in units of 1/1000
DomeUV(theta, phi) ==
    LET vec == UnitVertex(theta, phi)
        th == AcosDeg(vec[2])
        ph == Atan2Deg(vec[3], vec[1])
        r == DomeRadius(th)
    IN  <<500 + Quot(r * CosDeg(ph), 1000), 500 + Quot(r * SinDeg(ph), 1000)>>
DomeUVs == [vtx \in Vertices |-> DomeUV(vtx[1], vtx[2])]
\* The uv attribute while no dome mesh is mounted
NoUVs == <<>>
MountedUVs(mode) == IF mode = "dome" THEN DomeUVs ELSE NoUVs

\* Mutant: the layout effect has no dependency list and runs after every render.
LayoutEffectRunsOnRender(mounting) == TRUE

\* useLayoutEffect(..., []): the effect runs when its component mounts, not when
\* it renders again.
LayoutEffectRuns(mounting) == mounting
\* Runs of DomeProjection's layout effect in a commit of the scene showing mode
UVWrites(mode, mounting) == IF mode = "dome" /\ LayoutEffectRuns(mounting) THEN 1 ELSE 0

\* Mutant: an effect's cleanup does not remove its listener.
EffectCleanupMissing(n, attached) == n

\* Listener bookkeeping of an effect run: the cleanup of the previous run
\* removes the handler it added, the new run adds its own.
EffectCleanup(n, attached) == IF attached THEN n - 1 ELSE n
EffectSetup(n, attach) == IF attach THEN n + 1 ELSE n

----------------------------------------------------------------------------
(* Effects and library calls, as functions of a camera object *)

\* Mutant: the [mode, camera] effect also re-applies the default pose.
SetDefaultFovAndPose(c) ==
    [c EXCEPT !.fov = DefaultFov, !.position = DefaultPosition, !.up = WorldUp,
              !.quaternion = LookAt(DefaultPosition)]

\* CameraController, first effect ([mode, camera]): camera.fov = 75
SetDefaultFov(c) == [c EXCEPT !.fov = DefaultFov]

\* CameraController, second effect ([camera]), and step 2 of the reset logic:
\* position.set(0, -0.07, 0.07); up.set(0, 1, 0); lookAt(0, 0, 0)
SetDefaultPose(c) ==
    [c EXCEPT !.position = DefaultPosition, !.up = WorldUp,
              !.quaternion = LookAt(DefaultPosition)]

\* OrbitControls.update() on the controlled camera
ControlsUpdate(c) ==
    LET p == UpdatePosition(c.position, MinDistance)
    IN  [c EXCEPT !.position = p, !.quaternion = LookAt(p)]

\* controlsRef.current.reset(): position.copy(position0), then update()
ControlsReset(c, p0) == ControlsUpdate([c EXCEPT !.position = p0])

\* Mutants: the guard is missing; the guard is off by one.
ResetRunsAlways(resetTrigger) == TRUE
ResetRunsAfterFirst(resetTrigger) == resetTrigger > 1

\* Reset logic effect ([resetTrigger, camera]): its guard and its body
ResetRuns(resetTrigger) == resetTrigger > 0
ResetBody(c, p0) == ControlsReset(SetDefaultPose(SetDefaultFov(c)), p0)
ResetLogic(c, resetTrigger, p0) == IF ResetRuns(resetTrigger) THEN ResetBody(c, p0) ELSE c
ResetCount(resetTrigger) == IF ResetRuns(resetTrigger) THEN 1 ELSE 0

\* Mutant: the effect attaches its listener whatever enabled is.
OrientationListensAlways(enabled) == TRUE

\* OrientationHandler effect ([enabled]): whether it leaves a listener attached
OrientationListens(enabled) == enabled
\* OrientationHandler useFrame: whether the frame writes the camera orientation
FrameWrites(enabled) == enabled
\* <OrbitControls enabled={!isMotionEnabled} />
OrbitEnabled(motion) == ~motion

----------------------------------------------------------------------------
(* Controls auto-hide (App) *)

\* The object URL of a local file (URL.createObjectURL)
BlobUrl == <<"b", "l", "o", "b", ":", "1">>

\* Mutant: the pending timeout is not cleared.
ClearTimeoutMissing(ts, ref) == ts

\* window.clearTimeout(controlsTimerRef.current): the timeout the ref names is
\* removed if it is still pending.
ClearTimeout(ts, ref) ==
    IF ref \in 1..Len(ts)
    THEN SubSeq(ts, 1, ref - 1) \o SubSeq(ts, ref + 1, Len(ts))
    ELSE ts

\* resetControlsTimer as created by the render with the state values imm,
\* modal, settings and err, applied to shell = [show, timers, ref]: nothing in
\* immersive mode; else the controls are shown, the pending timeout is cleared
\* and a new one is set whose callback closes over modal, settings and err.
resetControlsTimer(imm, modal, settings, err, shell) ==
    IF imm
    THEN shell
    ELSE LET ts == ClearTimeout(shell.timers, shell.ref)
         IN  [show |-> TRUE,
              timers |-> Append(ts, [modal |-> modal, settings |-> settings,
                                     error |-> err]),
              ref |-> Len(ts) + 1]

\* The effect on [resetControlsTimer] when it runs again: the cleanup of the
\* previous run clears the pending timeout, then the new resetControlsTimer is
\* called (the window listeners are exchanged).
ControlsEffect(imm, modal, settings, err, shell) ==
    LET ts == ClearTimeout(shell.timers, shell.ref)
    IN  resetControlsTimer(imm, modal, settings, err,
                           [show |-> shell.show, timers |-> ts,
                            ref |-> IF ts = shell.timers THEN shell.ref ELSE 0])

\* The commit of an App render with the state values imm, modal, settings, err
\* and show: resetControlsTimer is a new function, and its effect runs again,
\* exactly if one of its dependencies changed.
ShellCommit(imm, modal, settings, err, show) ==
    LET shell == [show |-> show, timers |-> timers, ref |-> controlsTimerRef]
        after == IF <<imm, modal, settings, err>>
                      # <<isImmersive, isUrlModalOpen, isSettingsOpen, errorMsg>>
                 THEN ControlsEffect(imm, modal, settings, err, shell)
                 ELSE shell
    IN  /\ isImmersive' = imm
        /\ isUrlModalOpen' = modal
        /\ isSettingsOpen' = settings
        /\ showControls' = after.show
        /\ timers' = after.timers
        /\ controlsTimerRef' = after.ref

\* The first run of the effect on [resetControlsTimer], in App's mount commit
ShellMount ==
    LET after == resetControlsTimer(isImmersive, isUrlModalOpen, isSettingsOpen, errorMsg,
                                    [show |-> showControls, timers |-> timers,
                                     ref |-> controlsTimerRef])
    IN  /\ showControls' = after.show
        /\ timers' = after.timers
        /\ controlsTimerRef' = after.ref
        /\ UNCHANGED <<isImmersive, isUrlModalOpen, isSettingsOpen>>

\* AIAssistant is rendered for a loaded video outside immersive mode
\* ({!isImmersive && ... {video && <AIAssistant/>}}).
AssistantShown(hasVideo, imm) == hasVideo /\ ~imm

\* The assistant's state after App rendered with (hasVideo, imm): kept while
\* the component stays mounted; when it is unmounted its state is discarded
\* (the next mount starts from the initial state) and the calls it awaits
\* are left without a component.
ChatCommit(hasVideo, imm) ==
    IF AssistantShown(video, isImmersive) /\ ~AssistantShown(hasVideo, imm)
    THEN /\ messages' = <<"greeting">>
         /\ input' = <<>>
         /\ isLoading' = FALSE
         /\ pending' = 0
         /\ orphaned' = orphaned + pending
         /\ UNCHANGED <<sent, replies>>
    ELSE UNCHANGED chatVars

----------------------------------------------------------------------------
(* Embed code and query string (Settings, App) *)

\* String.prototype.trim on a text of letters and spaces
Trim(text) ==
    LET kept == {i \in 1..Len(text) : text[i] # " "}
    IN  IF kept = {}
        THEN <<>>
        ELSE SubSeq(text, CHOOSE i \in kept : \A j \in kept : i <= j,
                          CHOOSE i \in kept : \A j \in kept : i >= j)

Letters ==
    {"a", "b", "c", "d", "e", "f", "g", "h", "i", "j", "k", "l", "m", "n",
     "o", "p", "q", "r", "s", "t", "u", "v", "w", "x", "y", "z", "A", "B",
     "C", "D", "E", "F", "G", "H", "I", "J", "K", "L", "M", "N", "O", "P",
     "Q", "R", "S", "T", "U", "V", "W", "X", "Y", "Z"}

\* Characters that encodeURIComponent leaves as they are
Unreserved == Letters \cup DigitChars \cup {"-", "_", ".", "!", "~", "*", "(", ")"}

\* \w and "-" of the Drive link pattern
WordChars == Letters \cup DigitChars \cup {"_", "-"}

\* The percent escapes of the other characters that the model's texts use
EscapeOf(c) ==
    CASE c = ":" -> <<"%", "3", "A">>
      [] c = "/" -> <<"%", "2", "F">>
      [] c = "?" -> <<"%", "3", "F">>
      [] c = "=" -> <<"%", "3", "D">>
      [] c = "&" -> <<"%", "2", "6">>
      [] c = "%" -> <<"%", "2", "5">>
      [] c = " " -> <<"%", "2", "0">>
      [] c = "+" -> <<"%", "2", "B">>

Escaped == {":", "/", "?", "=", "&", "%", " ", "+"}

\* The character of a percent escape, <<>> if the three characters are not one
Unescape(code) ==
    LET hits == {c \in Escaped : EscapeOf(c) = code}
    IN  IF hits = {} THEN <<>> ELSE <<CHOOSE c \in hits : TRUE>>

\* The concatenation of a sequence of texts
RECURSIVE Flatten(_)
Flatten(parts) ==
    IF Len(parts) = 0 THEN <<>>
    ELSE IF Len(parts) = 1 THEN parts[1]
    ELSE LET half == Len(parts) \div 2
         IN  Flatten(SubSeq(parts, 1, half)) \o Flatten(SubSeq(parts, half + 1, Len(parts)))

\* encodeURIComponent
EncodeURIComponent(text) ==
    Flatten([i \in 1..Len(text) |->
               IF text[i] \in Unreserved THEN <<text[i]>> ELSE EscapeOf(text[i])])

\* The character of the percent escape that begins at position i, <<>> if
\* none begins there
EscapeAt(text, i) ==
    IF i >= 1 /\ i + 2 <= Len(text) /\ text[i] = "%"
    THEN Unescape(SubSeq(text, i, i + 2))
    ELSE <<>>

\* A "%" that begins no escape
Malformed(text) == \E i \in 1..Len(text) : text[i] = "%" /\ EscapeAt(text, i) = <<>>

\* Decoding of percent escapes: an escape gives its character, the two
\* characters after its "%" give nothing, a "%" that begins no escape is kept,
\* and with plus a "+" stands for a space.
PercentDecode(text, plus) ==
    Flatten([i \in 1..Len(text) |->
               IF text[i] = "%"
               THEN (IF EscapeAt(text, i) # <<>> THEN EscapeAt(text, i) ELSE <<"%">>)
               ELSE IF EscapeAt(text, i - 1) # <<>> \/ EscapeAt(text, i - 2) # <<>>
               THEN <<>>
               ELSE <<IF plus /\ text[i] = "+" THEN " " ELSE text[i]>>])

\* decodeURIComponent; ok is FALSE where it throws URIError
DecodeURIComponent(text) == [ok |-> ~Malformed(text), text |-> PercentDecode(text, FALSE)]

\* The decoding URLSearchParams applies to a name or a value
FormDecode(text) == PercentDecode(text, TRUE)

\* First position of sub in text from position i on, 0 if there is none
IndexOf(text, sub, i) ==
    LET at == {k \in i..(Len(text) - Len(sub) + 1) :
                 SubSeq(text, k, k + Len(sub) - 1) = sub}
    IN  IF at = {} THEN 0 ELSE CHOOSE k \in at : \A m \in at : k <= m

\* String.prototype.includes
Includes(text, sub) == IndexOf(text, sub, 1) # 0

\* String.prototype.startsWith
StartsWith(text, sub) == Len(text) >= Len(sub) /\ SubSeq(text, 1, Len(sub)) = sub

\* String.prototype.replace with a string pattern: the first occurrence
ReplaceFirst(text, from, to) ==
    LET k == IndexOf(text, from, 1)
    IN  IF k = 0 THEN text
        ELSE SubSeq(text, 1, k - 1) \o to \o SubSeq(text, k + Len(from), Len(text))

\* String.prototype.split with a one-character separator
RECURSIVE Split(_, _)
Split(text, sep) ==
    LET k == IndexOf(text, <<sep>>, 1)
    IN  IF k = 0 THEN <<text>>
        ELSE <<SubSeq(text, 1, k - 1)>> \o Split(SubSeq(text, k + 1, Len(text)), sep)

\* new URLSearchParams(search).get(name): the value of the first pair with
\* that name, <<>> for null (which the effect treats like an empty value)
SearchParam(search, name) ==
    LET query == IF StartsWith(search, <<"?">>) THEN SubSeq(search, 2, Len(search))
                 ELSE search
        pairs == Split(query, "&")
        NameOf(pair) == LET k == IndexOf(pair, <<"=">>, 1)
                        IN  FormDecode(IF k = 0 THEN pair ELSE SubSeq(pair, 1, k - 1))
        ValueOf(pair) == LET k == IndexOf(pair, <<"=">>, 1)
                         IN  FormDecode(IF k = 0 THEN <<>>
                                        ELSE SubSeq(pair, k + 1, Len(pair)))
        hits == {k \in 1..Len(pairs) : pairs[k] # <<>> /\ NameOf(pairs[k]) = name}
    IN  IF hits = {} THEN <<>>
        ELSE ValueOf(pairs[CHOOSE k \in hits : \A m \in hits : k <= m])

\* The decimal digits of a natural number
RECURSIVE DigitsOf(_)
DigitsOf(n) ==
    LET last == <<CHOOSE c \in DigitChars : DigitValue(c) = n % 10>>
    IN  IF n < 10 THEN last ELSE DigitsOf(n \div 10) \o last

\* `${domeTilt}` for an integer
IntToText(n) == IF n < 0 THEN <<"-">> \o DigitsOf(-n) ELSE DigitsOf(n)

\* generateEmbedCode: the query string of the iframe's src, and whether the
\* result is an iframe element (it is the text "Embed code only available for
\* remote URLs." for an empty or blob URL).
generateEmbedCode(currentVideoUrl, tilt, autoplayEnabled) ==
    IF currentVideoUrl = <<>> \/ StartsWith(currentVideoUrl, <<"b", "l", "o", "b", ":">>)
    THEN [iframe |-> FALSE, search |-> <<>>]
    ELSE [iframe |-> TRUE,
          search |-> <<"?", "u", "r", "l", "=">> \o EncodeURIComponent(currentVideoUrl)
                     \o <<"&", "t", "i", "l", "t", "=">> \o IntToText(tilt)
                     \o <<"&", "a", "u", "t", "o", "p", "l", "a", "y", "=">>
                     \o (IF autoplayEnabled THEN <<"1">> ELSE <<"0">>)]

\* copyToClipboard: what navigator.clipboard.writeText receives, <<>> if it is
\* not called (the code does not start with "<iframe")
copyToClipboard(currentVideoUrl, tilt, autoplayEnabled) ==
    LET code == generateEmbedCode(currentVideoUrl, tilt, autoplayEnabled)
    IN  IF code.iframe THEN code.search ELSE <<>>

\* autoParam !== '0' && autoParam !== 'false'
ShouldAutoPlay(autoParam) == autoParam # <<"0">> /\ autoParam # <<"f", "a", "l", "s", "e">>

\* The id the Drive pattern /(?:\/d\/|\/file\/d\/|id=)([-\w]+)/ captures, <<>>
\* without a match
DriveId(text) ==
    LET prefixes == {<<"/", "d", "/">>, <<"/", "f", "i", "l", "e", "/", "d", "/">>, <<"i", "d", "=">>}
        PrefixAt(k) == {pre \in prefixes :
                          /\ k + Len(pre) <= Len(text)
                          /\ SubSeq(text, k, k + Len(pre) - 1) = pre
                          /\ text[k + Len(pre)] \in WordChars}
        at == {k \in 1..Len(text) : PrefixAt(k) # {}}
        first == CHOOSE k \in at : \A m \in at : k <= m
        from == first + Len(CHOOSE pre \in PrefixAt(first) : TRUE)
        ends == {e \in from..Len(text) :
                   /\ \A j \in from..e : text[j] \in WordChars
                   /\ (e = Len(text) \/ text[e + 1] \notin WordChars)}
    IN  IF at = {} THEN <<>> ELSE SubSeq(text, from, CHOOSE e \in ends : TRUE)

\* loadVideoFromUrl's link parsers, applied to the trimmed URL
FinalUrl(url) ==
    LET finalUrl == Trim(url)
    IN  IF /\ Includes(finalUrl, <<"g", "o", "o", "g", "l", "e", ".", "c", "o", "m">>)
           /\ (Includes(finalUrl, <<"d", "r", "i", "v", "e">>) \/ Includes(finalUrl, <<"d", "o", "c", "s">>))
        THEN IF DriveId(finalUrl) = <<>> THEN finalUrl
             ELSE <<"h", "t", "t", "p", "s", ":", "/", "/", "d", "r", "i", "v", "e", ".", "g", "o", "o", "g", "l", "e", ".", "c", "o", "m", "/", "u", "c", "?", "e", "x", "p", "o", "r", "t", "=", "d", "o", "w", "n", "l", "o", "a", "d", "&", "i", "d", "=">>
                  \o DriveId(finalUrl)
        ELSE IF Includes(finalUrl, <<"d", "r", "o", "p", "b", "o", "x", ".", "c", "o", "m">>)
        THEN ReplaceFirst(finalUrl, <<"d", "l", "=", "0">>, <<"d", "l", "=", "1">>)
        ELSE IF Includes(finalUrl, <<"o", "n", "e", "d", "r", "i", "v", "e", ".", "l", "i", "v", "e", ".", "c", "o", "m">>)
        THEN ReplaceFirst(finalUrl, <<"/", "e", "m", "b", "e", "d">>, <<"/", "d", "o", "w", "n", "l", "o", "a", "d">>)
        ELSE finalUrl

\* Texts entered in the remote-URL dialog
RemoteUrls ==
    {<<"h", "t", "t", "p", ":", "/", "/", "h", "/", "a", ".", "m", "p", "4">>,
     <<" ", "h", "t", "t", "p", ":", "/", "/", "h", "/", "a", ".", "m", "p", "4", " ">>,
     <<"h", "t", "t", "p", ":", "/", "/", "h", "/", "a", "%", "2", "0", "b", ".", "m", "p", "4">>,
     <<"h", "t", "t", "p", ":", "/", "/", "h", "/", "a", ".", "m", "p", "4", "?", "k", "=", "1", "&", "m", "=", "2">>,
     <<"h", "t", "t", "p", ":", "/", "/", "h", "/", "1", "0", "0", "%">>,
     <<"h", "t", "t", "p", ":", "/", "/", "h", "/", "a", "+", "b", ".", "m", "p", "4">>,
     <<"h", "t", "t", "p", "s", ":", "/", "/", "d", "r", "o", "p", "b", "o", "x", ".", "c", "o", "m", "/", "f", "?", "d", "l", "=", "0">>,
     <<"h", "t", "t", "p", "s", ":", "/", "/", "d", "r", "i", "v", "e", ".", "g", "o", "o", "g", "l", "e", ".", "c", "o", "m", "/", "f", "i", "l", "e", "/", "d", "/", "a", "B", "1", "/", "v", "i", "e", "w">>,
     <<"h", "t", "t", "p", "s", ":", "/", "/", "o", "n", "e", "d", "r", "i", "v", "e", ".", "l", "i", "v", "e", ".", "c", "o", "m", "/", "e", "m", "b", "e", "d", "?", "i", "d", "=", "7">>}

\* The values video.url can have: none, the object URL of a local file, and
\* what loadVideoFromUrl stores for the texts of the dialog
CurrentUrls == {<<>>, BlobUrl} \cup {FinalUrl(url) : url \in RemoteUrls}

----------------------------------------------------------------------------
(* Initial state: the first render of App and Scene, before any effect ran. *)
(* The store's camera is the Canvas' own; <PerspectiveCamera makeDefault    *)
(* fov={75}/> has been created at the origin; OrbitControls was constructed *)
(* for the store's camera.                                                  *)

Init ==
    /\ phase = "rendered"
    /\ camera = R3FCamera
    /\ cams = [id \in CameraIds |->
                 [fov |-> DefaultFov,
                  position |-> IF id = R3FCamera THEN R3FDefaultPosition ELSE Origin,
                  up |-> WorldUp,
                  quaternion |-> Identity]]
    /\ isMotionEnabled = FALSE
    /\ projectionMode = "dome"
    /\ domeTilt = 0
    /\ resetCameraTrigger = 0
    /\ video = FALSE
    /\ targetQuaternion = Identity
    /\ currentQuaternion = Identity
    /\ orientationListener = FALSE
    /\ zoomCamera = NoCamera
    /\ startDist = 0
    /\ startFov = DefaultFov
    /\ controlsObject = R3FCamera
    /\ controlsEnabled = TRUE
    /\ position0 = R3FDefaultPosition
    /\ touches = 0
    /\ permissionApi \in BOOLEAN
    /\ nResets = 0
    /\ capDist = 0
    /\ capFov = DefaultFov
    /\ gestureFresh = FALSE
    /\ ticks = 0
    /\ lastOp = "init"
    /\ lastArg = 0
    /\ uvWrites = 0
    /\ errorMsg = FALSE
    /\ videoElement = FALSE
    /\ orientationHandlers = 0
    /\ zoomHandlers = 0
    /\ uv = NoUVs
    /\ mediaError = FALSE
    /\ burst = "none"
    /\ showControls = TRUE
    /\ isImmersive = FALSE
    /\ isUrlModalOpen = FALSE
    /\ isSettingsOpen = FALSE
    /\ timers = <<>>
    /\ controlsTimerRef = 0
    /\ messages = <<"greeting">>
    /\ input = <<>>
    /\ isLoading = FALSE
    /\ pending = 0
    /\ orphaned = 0
    /\ sent = 0
    /\ replies = 0
    /\ videoUrl = <<>>
    /\ playRequested = FALSE
    /\ embedded = <<>>

----------------------------------------------------------------------------
(* Mount *)

\* The effects that depend on the camera, run for the camera object c of the
\* committed render: CameraController's two effects, then Scene's reset logic
\* and zoom effect (children before parents).
CameraEffects(c, p0) ==
    /\ cams' = [cams EXCEPT ![c] =
                  ResetLogic(SetDefaultPose(SetDefaultFov(@)), resetCameraTrigger, p0)]
    /\ nResets' = nResets + ResetCount(resetCameraTrigger)
    /\ zoomCamera' = c
    /\ zoomHandlers' = EffectSetup(EffectCleanup(zoomHandlers, zoomCamera # NoCamera), TRUE)
    /\ startDist' = 0
    /\ startFov' = DefaultFov

\* First commit.  PerspectiveCamera's layout effect makes its camera the
\* store's and DomeProjection's layout effect writes the uv attribute; the
\* passive effects still close over the Canvas' camera.
CommitFirstRender ==
    /\ phase = "rendered"
    /\ phase' = "committed"
    /\ camera' = SceneCamera
    /\ CameraEffects(camera, position0)
    /\ orientationListener' = OrientationListens(isMotionEnabled)
    /\ orientationHandlers' =
           EffectSetup(orientationHandlers, OrientationListens(isMotionEnabled))
    /\ uv' = MountedUVs(projectionMode)
    /\ controlsEnabled' = OrbitEnabled(isMotionEnabled)
    /\ ShellMount
    /\ UNCHANGED <<chatVars, embedVars>>
    /\ uvWrites' = UVWrites(projectionMode, TRUE)
    /\ lastOp' = "commit1"
    /\ lastArg' = 0
    /\ UNCHANGED <<appVars, smoothVars, controlsObject, position0, touches,
                   permissionApi, capDist, capFov, gestureFresh, ticks,
                   mediaVars, videoElement, burst>>

\* Re-render for the new store camera, and its commit: OrbitControls is
\* constructed anew for it during the render (so position0 is the camera's
\* position before any effect placed it), the old zoom listeners are removed
\* and the camera effects run again.
CommitCameraChange ==
    /\ phase = "committed"
    /\ phase' = "mounted"
    /\ controlsObject' = camera
    /\ position0' = cams[camera].position
    /\ controlsEnabled' = OrbitEnabled(isMotionEnabled)
    /\ CameraEffects(camera, cams[camera].position)
    /\ UNCHANGED <<shellVars, chatVars, embedVars>>
    /\ uvWrites' = UVWrites(projectionMode, FALSE)
    /\ lastOp' = "commit2"
    /\ lastArg' = 0
    /\ UNCHANGED <<camera, appVars, smoothVars, orientationListener, touches,
                   permissionApi, capDist, capFov, gestureFresh, ticks,
                   mediaVars, videoElement, orientationHandlers, uv, burst>>

----------------------------------------------------------------------------
(* Gesture zoom: the handlers registered by Scene's zoom effect *)

handleWheel(deltaY) ==
    /\ phase = "mounted"
    /\ zoomCamera # NoCamera
    /\ cams' = [cams EXCEPT ![zoomCamera].fov = WheelFov(@, deltaY)]
    /\ UNCHANGED <<shellVars, chatVars, embedVars>>
    /\ uvWrites' = 0
    /\ lastOp' = "wheel"
    /\ lastArg' = 0
    /\ UNCHANGED <<phase, camera, appVars, smoothVars, orientationListener, zoomCamera,
                   gestureVars, controlsVars, touches, permissionApi, nResets, ticks,
                   mediaVars, videoElement, handlerVars, uv, burst>>

\* k new contacts land; the event's touches list holds all contacts, and off is
\* the offset (dx, dy) between its first two.
handleTouchStart(k, off) ==
    /\ phase = "mounted"
    /\ zoomCamera # NoCamera
    /\ touches + k <= MaxTouches
    /\ touches' = touches + k
    /\ IF touches + k = 2
       THEN /\ startDist' = TouchDistance(off)
            /\ startFov' = cams[zoomCamera].fov
       ELSE UNCHANGED <<startDist, startFov>>
    /\ IF touches + k = 2
       THEN /\ capDist' = TouchDistance(off)
            /\ capFov' = cams[zoomCamera].fov
            /\ gestureFresh' = TRUE
       ELSE UNCHANGED <<capDist, capFov, gestureFresh>>
    /\ UNCHANGED <<shellVars, chatVars, embedVars>>
    /\ uvWrites' = 0
    /\ lastOp' = "touchstart"
    /\ lastArg' = 0
    /\ UNCHANGED <<phase, camera, cams, appVars, smoothVars, orientationListener,
                   zoomCamera, controlsVars, permissionApi, nResets, ticks,
                   mediaVars, videoElement, handlerVars, uv, burst>>

handleTouchMove(off) ==
    /\ phase = "mounted"
    /\ zoomCamera # NoCamera
    /\ touches >= 1
    /\ IF touches = 2 /\ startDist > 0
       THEN cams' = [cams EXCEPT ![zoomCamera].fov =
                       PinchFov(startFov, startDist, TouchDistance(off))]
       ELSE UNCHANGED cams
    /\ UNCHANGED <<shellVars, chatVars, embedVars>>
    /\ uvWrites' = 0
    /\ lastOp' = "touchmove"
    /\ lastArg' = TouchDistance(off)
    /\ UNCHANGED <<phase, camera, appVars, smoothVars, orientationListener, zoomCamera,
                   gestureVars, controlsVars, touches, permissionApi, nResets, ticks,
                   mediaVars, videoElement, handlerVars, uv, burst>>

\* k contacts are lifted.  Scene registers no touchend or touchcancel handler.
TouchEnd(k) ==
    /\ phase = "mounted"
    /\ touches >= k
    /\ touches' = touches - k
    /\ gestureFresh' = (gestureFresh /\ touches - k >= 2)
    /\ UNCHANGED <<shellVars, chatVars, embedVars>>
    /\ uvWrites' = 0
    /\ lastOp' = "touchend"
    /\ lastArg' = 0
    /\ UNCHANGED <<phase, camera, cams, appVars, smoothVars, orientationListener,
                   zoomCamera, startDist, startFov, capDist, capFov, controlsVars,
                   permissionApi, nResets, ticks,
                   mediaVars, videoElement, handlerVars, uv, burst>>

----------------------------------------------------------------------------
(* Orientation fusion *)

\* Mutant: no null check; degToRad(null) is 0.
AngleOrZero(a) == IF a = NULL THEN 0 ELSE a[1]
handleOrientationUnguarded(alpha, beta, gamma) ==
    targetQuaternion' =
        SetFromEulerTimesQ1(AngleOrZero(alpha), AngleOrZero(beta), AngleOrZero(gamma))

\* Mutant: the handler blends the sample into the previous target.
handleOrientationBlended(alpha, beta, gamma) ==
    IF alpha = NULL \/ beta = NULL \/ gamma = NULL
    THEN UNCHANGED targetQuaternion
    ELSE targetQuaternion' =
            <<Deg(alpha[1]),
              Quot(targetQuaternion[2] + SetFromEulerTimesQ1(alpha[1], beta[1], gamma[1])[2], 2)>>

handleOrientation(alpha, beta, gamma) ==
    IF alpha = NULL \/ beta = NULL \/ gamma = NULL
    THEN UNCHANGED targetQuaternion
    ELSE targetQuaternion' = SetFromEulerTimesQ1(alpha[1], beta[1], gamma[1])

\* burst: "none", "one" or "several" samples handled since the last frame;
\* "tickedSeveral" once a frame has followed several samples.
NextBurst(b) == IF b \in {"one", "several"} THEN "several" ELSE "one"
BurstAfterTick(b) == IF b = "several" THEN "tickedSeveral" ELSE "none"

\* The window dispatches a deviceorientation event, while the scene is mounted
\* or after it was torn down; it reaches handleOrientation only if the
\* listener is attached.
DeviceOrientation(alpha, beta, gamma) ==
    /\ phase \in {"mounted", "unmounted"}
    /\ IF orientationListener
       THEN handleOrientation(alpha, beta, gamma)
       ELSE UNCHANGED targetQuaternion
    /\ UNCHANGED <<shellVars, chatVars, embedVars>>
    /\ uvWrites' = 0
    /\ lastOp' = IF alpha = NULL \/ beta = NULL \/ gamma = NULL
                 THEN "nullsample" ELSE "sample"
    /\ lastArg' = IF alpha = NULL \/ beta = NULL \/ gamma = NULL THEN 0 ELSE beta[1]
    /\ burst' = IF orientationListener /\ alpha # NULL /\ beta # NULL /\ gamma # NULL
                THEN NextBurst(burst) ELSE burst
    /\ UNCHANGED <<phase, camera, cams, appVars, currentQuaternion, orientationListener,
                   zoomCamera, gestureVars, controlsVars, touches, permissionApi,
                   nResets, ticks, mediaVars, videoElement, handlerVars, uv>>

\* One frame: drei's OrbitControls frame callback (priority -1), then
\* OrientationHandler's.
RenderTick ==
    /\ phase = "mounted"
    /\ LET cur == IF FrameWrites(isMotionEnabled)
                  THEN Slerp(currentQuaternion, targetQuaternion)
                  ELSE currentQuaternion
           c1 == IF controlsEnabled THEN ControlsUpdate(cams[controlsObject])
                 ELSE cams[controlsObject]
           c2 == [cams EXCEPT ![controlsObject] = c1]
       IN  /\ cur # currentQuaternion => ticks < MaxTicks
           /\ ticks' = IF cur # currentQuaternion THEN ticks + 1 ELSE ticks
           /\ currentQuaternion' = cur
           /\ cams' = IF FrameWrites(isMotionEnabled)
                      THEN [c2 EXCEPT ![camera].quaternion = cur]
                      ELSE c2
    /\ burst' = BurstAfterTick(burst)
    /\ UNCHANGED <<shellVars, chatVars, embedVars>>
    /\ uvWrites' = 0
    /\ lastOp' = "tick"
    /\ lastArg' = 0
    /\ UNCHANGED <<phase, camera, appVars, targetQuaternion, orientationListener,
                   zoomCamera, gestureVars, controlsVars, touches, permissionApi, nResets,
                   mediaVars, videoElement, handlerVars, uv>>

\* A pointer drag on the canvas, handled by OrbitControls when enabled (the
\* rotation it spreads over the following frames by damping is applied at once).
OrbitDrag(kind) ==
    /\ phase = "mounted"
    /\ controlsEnabled
    /\ cams' = [cams EXCEPT ![controlsObject] =
                  ControlsUpdate([@ EXCEPT !.position =
                      Rotate(UpdatePosition(@, MinDistance), kind)])]
    /\ UNCHANGED <<shellVars, chatVars, embedVars>>
    /\ uvWrites' = 0
    /\ lastOp' = "drag"
    /\ lastArg' = 0
    /\ UNCHANGED <<phase, camera, appVars, smoothVars, orientationListener, zoomCamera,
                   gestureVars, controlsVars, touches, permissionApi, nResets, ticks,
                   mediaVars, videoElement, handlerVars, uv, burst>>

----------------------------------------------------------------------------
(* App: the handlers that change Scene's props, with the effects they trigger *)

\* Mutant: the handler flips the flag on every platform.
MotionFlips(hasApi, state, motion) == ~motion

\* requestMotionPermission; state is the permission request's outcome ("error":
\* the request threw).
MotionAfterRequest(hasApi, state, motion) ==
    IF hasApi THEN (IF state = "granted" THEN TRUE ELSE motion) ELSE ~motion

requestMotionPermission(state) ==
    /\ phase = "mounted"
    /\ isMotionEnabled' = MotionAfterRequest(permissionApi, state, isMotionEnabled)
    /\ orientationListener' = OrientationListens(isMotionEnabled')
    /\ orientationHandlers' =
           IF isMotionEnabled' = isMotionEnabled THEN orientationHandlers
           ELSE EffectSetup(EffectCleanup(orientationHandlers, orientationListener),
                            OrientationListens(isMotionEnabled'))
    /\ controlsEnabled' = OrbitEnabled(isMotionEnabled')
    /\ videoElement' = (videoElement \/ isMotionEnabled' # isMotionEnabled)
    /\ UNCHANGED <<shellVars, chatVars, embedVars>>
    /\ uvWrites' = UVWrites(projectionMode, FALSE)
    /\ lastOp' = "motion"
    /\ lastArg' = IF permissionApi /\ state = "granted" THEN 1 ELSE 0
    /\ UNCHANGED <<phase, camera, cams, projectionMode, domeTilt, resetCameraTrigger,
                   video, smoothVars, zoomCamera, gestureVars, controlsObject, position0,
                   touches, permissionApi, nResets, ticks,
                   mediaVars, zoomHandlers, uv, burst>>

\* Settings' Dome / Flat buttons: setProjectionMode(mode); the other projection
\* component mounts (DomeProjection's layout effect writes the uv attribute of
\* its new mesh), then CameraController's [mode, camera] effect runs.
onProjectionModeChange(mode) ==
    /\ phase = "mounted"
    /\ mode # projectionMode
    /\ projectionMode' = mode
    /\ cams' = [cams EXCEPT ![camera] = SetDefaultFov(@)]
    /\ uv' = MountedUVs(mode)
    /\ videoElement' = TRUE
    /\ UNCHANGED <<shellVars, chatVars, embedVars>>
    /\ uvWrites' = UVWrites(mode, TRUE)
    /\ lastOp' = "mode"
    /\ lastArg' = 0
    /\ UNCHANGED <<phase, camera, isMotionEnabled, domeTilt, resetCameraTrigger, video,
                   smoothVars, orientationListener, zoomCamera, gestureVars,
                   controlsVars, touches, permissionApi, nResets, ticks,
                   mediaVars, handlerVars, burst>>

\* Settings' tilt slider: setDomeTilt(parseInt(value))
onTiltChange(val) ==
    /\ phase = "mounted"
    /\ val # domeTilt
    /\ domeTilt' = val
    /\ videoElement' = TRUE
    /\ UNCHANGED <<shellVars, chatVars, embedVars>>
    /\ uvWrites' = UVWrites(projectionMode, FALSE)
    /\ lastOp' = "tilt"
    /\ lastArg' = 0
    /\ UNCHANGED <<phase, camera, cams, isMotionEnabled, projectionMode,
                   resetCameraTrigger, video, smoothVars, orientationListener,
                   zoomCamera, gestureVars, controlsVars, touches, permissionApi,
                   nResets, ticks, mediaVars, handlerVars, uv, burst>>

\* A first video is loaded from a local file with the landing card's file
\* input (handleFileChange: setErrorMsg(null), setVideo, videoRef.current.src =
\* url, play()).
LoadVideo ==
    /\ phase = "mounted"
    /\ ~video
    /\ ~isUrlModalOpen
    /\ video' = TRUE
    /\ errorMsg' = FALSE
    /\ mediaError' = FALSE
    /\ videoElement' = TRUE
    /\ ShellCommit(isImmersive, isUrlModalOpen, isSettingsOpen, FALSE, showControls)
    /\ videoUrl' = BlobUrl
    /\ playRequested' = TRUE
    /\ UNCHANGED <<chatVars, embedded>>
    /\ uvWrites' = UVWrites(projectionMode, FALSE)
    /\ lastOp' = "load"
    /\ lastArg' = 0
    /\ UNCHANGED <<phase, camera, cams, isMotionEnabled, projectionMode, domeTilt,
                   resetCameraTrigger, smoothVars, orientationListener, zoomCamera,
                   gestureVars, controlsVars, touches, permissionApi, nResets, ticks,
                   handlerVars, uv, burst>>

\* The Reset View button (rendered with Controls, i.e. once a video is loaded):
\* setResetCameraTrigger(p => p + 1), then Scene's reset logic effect.
onResetCamera ==
    /\ phase = "mounted"
    /\ video
    /\ resetCameraTrigger < MaxResets
    /\ resetCameraTrigger' = resetCameraTrigger + 1
    /\ cams' = [cams EXCEPT ![camera] = ResetLogic(@, resetCameraTrigger', position0)]
    /\ nResets' = nResets + ResetCount(resetCameraTrigger')
    /\ videoElement' = TRUE
    /\ UNCHANGED <<shellVars, chatVars, embedVars>>
    /\ uvWrites' = UVWrites(projectionMode, FALSE)
    /\ lastOp' = "reset"
    /\ lastArg' = 0
    /\ UNCHANGED <<phase, camera, isMotionEnabled, projectionMode, domeTilt, video,
                   smoothVars, orientationListener, zoomCamera, gestureVars,
                   controlsVars, touches, permissionApi, ticks,
                   mediaVars, handlerVars, uv, burst>>

\* App's mount effect that reads the query string, for the values that
\* params.get returned.  It runs once, before the scene's first commit; App
\* renders again if the state changed.
\*   if (urlParam) loadVideoFromUrl(decodeURIComponent(urlParam), shouldAutoPlay);
\*   if (tiltParam) setDomeTilt(parseInt(tiltParam) || 0)
\* decodeURIComponent may throw; an effect that throws takes the application
\* down.  ready is videoRef.current at that moment: the effect that creates
\* the video element is declared after this one, so the ref is null in the
\* commit that mounts App, and it is set if React runs the mount effects a
\* second time (as its development mode does under StrictMode); with a null
\* ref loadVideoFromUrl returns at once.  source records the settings that an
\* embed code was generated from.
ApplyQueryParams(urlParam, tiltParam, autoParam, ready, source) ==
    /\ phase = "rendered"
    /\ lastOp \in {"init", "remount"}
    /\ urlParam # <<>> \/ tiltParam # <<>>
    /\ LET decoded == DecodeURIComponent(urlParam)
           loads == urlParam # <<>> /\ ready /\ decoded.text # <<>>
       IN  IF urlParam # <<>> /\ ~decoded.ok
           THEN /\ phase' = "crashed"
                /\ UNCHANGED <<domeTilt, video, videoUrl, playRequested, mediaError,
                               videoElement>>
           ELSE /\ video' = (video \/ loads)
                /\ videoUrl' = IF loads THEN FinalUrl(decoded.text) ELSE videoUrl
                /\ playRequested' = IF loads THEN ShouldAutoPlay(autoParam)
                                    ELSE playRequested
                /\ mediaError' = (mediaError /\ ~loads)
                /\ domeTilt' = IF tiltParam # <<>> THEN TiltFromParam(tiltParam)
                               ELSE domeTilt
                /\ videoElement' = (videoElement \/ loads \/ domeTilt' # domeTilt)
                /\ UNCHANGED phase
    /\ embedded' = source
    /\ UNCHANGED <<shellVars, chatVars, errorMsg>>
    /\ uvWrites' = 0
    /\ lastOp' = "query"
    /\ lastArg' = 0
    /\ UNCHANGED <<camera, cams, isMotionEnabled, projectionMode,
                   resetCameraTrigger, smoothVars, orientationListener,
                   zoomCamera, gestureVars, controlsVars, touches, permissionApi,
                   nResets, ticks, handlerVars, uv, burst>>

\* The page is opened with the query string of the embed code that the
\* settings panel shows for (url, tilt, autoplayEnabled).
StartFromEmbed(url, tilt, autoplayEnabled, ready) ==
    LET code == generateEmbedCode(url, tilt, autoplayEnabled)
    IN  /\ phase = "rendered"
        /\ code.iframe
        /\ ApplyQueryParams(SearchParam(code.search, <<"u", "r", "l">>),
                            SearchParam(code.search, <<"t", "i", "l", "t">>),
                            SearchParam(code.search, <<"a", "u", "t", "o", "p", "l", "a", "y">>),
                            ready, <<url, tilt, autoplayEnabled>>)

\* The dialog's Launch button: loadVideoFromUrl(remoteUrl), with the video
\* element present (the application is mounted) and autoPlay true.
LaunchUrl(url) ==
    /\ phase = "mounted"
    /\ ~isImmersive
    /\ isUrlModalOpen
    /\ url # <<>>
    /\ errorMsg' = FALSE
    /\ mediaError' = FALSE
    /\ video' = TRUE
    /\ videoUrl' = FinalUrl(url)
    /\ playRequested' = TRUE
    /\ videoElement' = TRUE
    /\ ShellCommit(isImmersive, FALSE, isSettingsOpen, FALSE, showControls)
    /\ UNCHANGED <<chatVars, embedded>>
    /\ uvWrites' = UVWrites(projectionMode, FALSE)
    /\ lastOp' = "load"
    /\ lastArg' = 1
    /\ UNCHANGED <<phase, camera, cams, isMotionEnabled, projectionMode, domeTilt,
                   resetCameraTrigger, smoothVars, orientationListener, zoomCamera,
                   gestureVars, controlsVars, touches, permissionApi, nResets, ticks,
                   handlerVars, uv, burst>>

\* The file input's change handler: setErrorMsg(null); with a file chosen,
\* setVideo and videoRef.current.src = url.
handleFileChange(hasFile) ==
    /\ phase = "mounted"
    /\ ~isImmersive
    /\ ~isUrlModalOpen
    /\ errorMsg' = FALSE
    /\ video' = (video \/ hasFile)
    /\ mediaError' = (mediaError /\ ~hasFile)
    /\ videoElement' = (videoElement \/ errorMsg \/ hasFile)
    /\ ShellCommit(isImmersive, isUrlModalOpen, isSettingsOpen, FALSE, showControls)
    /\ videoUrl' = IF hasFile THEN BlobUrl ELSE videoUrl
    /\ playRequested' = (hasFile \/ playRequested)
    /\ UNCHANGED <<chatVars, embedded>>
    /\ uvWrites' = UVWrites(projectionMode, FALSE)
    /\ lastOp' = IF hasFile THEN "load" ELSE "nofile"
    /\ lastArg' = 0
    /\ UNCHANGED <<phase, camera, cams, isMotionEnabled, projectionMode, domeTilt,
                   resetCameraTrigger, smoothVars, orientationListener, zoomCamera,
                   gestureVars, controlsVars, touches, permissionApi, nResets, ticks,
                   handlerVars, uv, burst>>

\* The video element's error event, for the source it was given:
\* setErrorMsg(`Failed to play video: ...`); setIsPlaying(false)
handleError ==
    /\ phase = "mounted"
    /\ video
    /\ errorMsg' = TRUE
    /\ mediaError' = TRUE
    /\ videoElement' = TRUE
    /\ ShellCommit(isImmersive, isUrlModalOpen, isSettingsOpen, TRUE, showControls)
    /\ UNCHANGED <<chatVars, embedVars>>
    /\ uvWrites' = UVWrites(projectionMode, FALSE)
    /\ lastOp' = "error"
    /\ lastArg' = 0
    /\ UNCHANGED <<phase, camera, cams, appVars, smoothVars, orientationListener,
                   zoomCamera, gestureVars, controlsVars, touches, permissionApi,
                   nResets, ticks, handlerVars, uv, burst>>

\* The error toast's close button: setErrorMsg(null)
DismissError ==
    /\ phase = "mounted"
    /\ errorMsg
    /\ errorMsg' = FALSE
    /\ videoElement' = TRUE
    /\ ShellCommit(isImmersive, isUrlModalOpen, isSettingsOpen, FALSE, showControls)
    /\ UNCHANGED <<chatVars, embedVars>>
    /\ uvWrites' = UVWrites(projectionMode, FALSE)
    /\ lastOp' = "dismiss"
    /\ lastArg' = 0
    /\ UNCHANGED <<phase, camera, cams, appVars, smoothVars, orientationListener,
                   zoomCamera, gestureVars, controlsVars, touches, permissionApi,
                   nResets, ticks, mediaError, handlerVars, uv, burst>>

\* The window listener for mousemove, touchstart, mousedown and keydown:
\* resetControlsTimer()
UserInteraction ==
    /\ phase = "mounted"
    /\ LET after == resetControlsTimer(isImmersive, isUrlModalOpen, isSettingsOpen,
                                        errorMsg,
                                        [show |-> showControls, timers |-> timers,
                                         ref |-> controlsTimerRef])
       IN  /\ showControls' = after.show
           /\ timers' = after.timers
           /\ controlsTimerRef' = after.ref
    /\ videoElement' = (videoElement \/ showControls' # showControls)
    /\ uvWrites' = UVWrites(projectionMode, FALSE)
    /\ lastOp' = "interact"
    /\ lastArg' = 0
    /\ UNCHANGED <<phase, camera, cams, appVars, smoothVars, orientationListener,
                   zoomCamera, gestureVars, controlsVars, touches, permissionApi,
                   nResets, ticks, mediaVars, handlerVars, uv, burst,
                   isImmersive, isUrlModalOpen, isSettingsOpen, chatVars, embedVars>>

\* The pending timeout i expires and its callback runs with the values it
\* closed over: if (!isUrlModalOpen && !isSettingsOpen && !errorMsg)
\* setShowControls(false)
TimerFires(i) ==
    /\ phase = "mounted"
    /\ i \in 1..Len(timers)
    /\ showControls' = IF \/ timers[i].modal
                          \/ timers[i].settings
                          \/ timers[i].error
                       THEN showControls
                       ELSE FALSE
    /\ timers' = SubSeq(timers, 1, i - 1) \o SubSeq(timers, i + 1, Len(timers))
    /\ controlsTimerRef' = IF controlsTimerRef = i THEN 0
                           ELSE IF controlsTimerRef > i THEN controlsTimerRef - 1
                           ELSE controlsTimerRef
    /\ videoElement' = (videoElement \/ showControls' # showControls)
    /\ uvWrites' = UVWrites(projectionMode, FALSE)
    /\ lastOp' = "timeout"
    /\ lastArg' = 0
    /\ UNCHANGED <<phase, camera, cams, appVars, smoothVars, orientationListener,
                   zoomCamera, gestureVars, controlsVars, touches, permissionApi,
                   nResets, ticks, mediaVars, handlerVars, uv, burst,
                   isImmersive, isUrlModalOpen, isSettingsOpen, chatVars, embedVars>>

\* The settings panel's handle: setIsSettingsOpen(!isSettingsOpen)
ToggleSettings ==
    /\ phase = "mounted"
    /\ ~isImmersive
    /\ ShellCommit(isImmersive, isUrlModalOpen, ~isSettingsOpen, errorMsg, showControls)
    /\ videoElement' = TRUE
    /\ uvWrites' = UVWrites(projectionMode, FALSE)
    /\ lastOp' = "settings"
    /\ lastArg' = 0
    /\ UNCHANGED <<phase, camera, cams, appVars, smoothVars, orientationListener,
                   zoomCamera, gestureVars, controlsVars, touches, permissionApi,
                   nResets, ticks, mediaVars, handlerVars, uv, burst,
                   chatVars, embedVars>>

\* "Stream Remote URL" on the landing card, or the controls' URL button (which
\* takes pointer events only while the controls are shown):
\* setIsUrlModalOpen(true)
OpenUrlModal ==
    /\ phase = "mounted"
    /\ ~isImmersive
    /\ ~isUrlModalOpen
    /\ video => showControls
    /\ ShellCommit(isImmersive, TRUE, isSettingsOpen, errorMsg, showControls)
    /\ videoElement' = TRUE
    /\ uvWrites' = UVWrites(projectionMode, FALSE)
    /\ lastOp' = "modal"
    /\ lastArg' = 1
    /\ UNCHANGED <<phase, camera, cams, appVars, smoothVars, orientationListener,
                   zoomCamera, gestureVars, controlsVars, touches, permissionApi,
                   nResets, ticks, mediaVars, handlerVars, uv, burst,
                   chatVars, embedVars>>

\* The dialog's Cancel button: setIsUrlModalOpen(false)
CloseUrlModal ==
    /\ phase = "mounted"
    /\ ~isImmersive
    /\ isUrlModalOpen
    /\ ShellCommit(isImmersive, FALSE, isSettingsOpen, errorMsg, showControls)
    /\ videoElement' = TRUE
    /\ uvWrites' = UVWrites(projectionMode, FALSE)
    /\ lastOp' = "modal"
    /\ lastArg' = 0
    /\ UNCHANGED <<phase, camera, cams, appVars, smoothVars, orientationListener,
                   zoomCamera, gestureVars, controlsVars, touches, permissionApi,
                   nResets, ticks, mediaVars, handlerVars, uv, burst,
                   chatVars, embedVars>>

\* The document's fullscreenchange event; isFs is !!document.fullscreenElement.
\* The document enters fullscreen only by toggleImmersiveMode, the controls'
\* button (rendered once a video is loaded), whose request the browser
\* resolves later, and leaves it by the browser's own means (Escape):
\* setIsImmersive(isFs); if (!isFs) setShowControls(true)
handleFullscreenChange(isFs) ==
    /\ phase = "mounted"
    /\ isFs # isImmersive
    /\ isFs => video
    /\ ShellCommit(isFs, isUrlModalOpen, isSettingsOpen, errorMsg,
                   IF isFs THEN showControls ELSE TRUE)
    /\ ChatCommit(video, isFs)
    /\ videoElement' = TRUE
    /\ uvWrites' = UVWrites(projectionMode, FALSE)
    /\ lastOp' = "fullscreen"
    /\ lastArg' = IF isFs THEN 1 ELSE 0
    /\ UNCHANGED <<phase, camera, cams, appVars, smoothVars, orientationListener,
                   zoomCamera, gestureVars, controlsVars, touches, permissionApi,
                   nResets, ticks, mediaVars, handlerVars, uv, burst, embedVars>>

----------------------------------------------------------------------------
(* Assistant chat (AIAssistant, getGeminiResponse) *)

\* handleSend's guard: if (!input.trim() || isLoading) return
SendAccepted(text, loading) == Trim(text) # <<>> /\ ~loading

\* The role of a message kind
Role(kind) == IF kind = "user" THEN "user" ELSE "assistant"

\* The message getGeminiResponse resolves to: response.text, the fallback for
\* an empty text, or the catch block's message when generateContent failed.
ResponseMessage(outcome) ==
    CASE outcome = "text" -> "reply"
      [] outcome = "empty" -> "fallback"
      [] outcome = "failed" -> "failure"

AssistantMounted == phase = "mounted" /\ AssistantShown(video, isImmersive)

\* The input field's onChange: setInput(e.target.value)
setInput(text) ==
    /\ AssistantMounted
    /\ text # input
    /\ input' = text
    /\ uvWrites' = 0
    /\ lastOp' = "input"
    /\ lastArg' = 0
    /\ UNCHANGED <<messages, isLoading, pending, orphaned, sent, replies>>
    /\ UNCHANGED <<phase, camera, cams, appVars, smoothVars, orientationListener,
                   zoomCamera, gestureVars, controlsVars, touches, permissionApi,
                   nResets, ticks, mediaVars, videoElement, handlerVars, uv, burst,
                   shellVars, embedVars>>

\* handleSend up to its await: the guard, then setInput(''), the user's
\* message is appended, setIsLoading(true) and getGeminiResponse is called.
handleSend ==
    /\ AssistantMounted
    /\ IF SendAccepted(input, isLoading)
       THEN /\ sent < MaxSends
            /\ input' = <<>>
            /\ messages' = Append(messages, "user")
            /\ isLoading' = TRUE
            /\ pending' = pending + 1
            /\ sent' = sent + 1
            /\ lastArg' = 1
            /\ UNCHANGED <<orphaned, replies>>
       ELSE /\ lastArg' = 0
            /\ UNCHANGED chatVars
    /\ uvWrites' = 0
    /\ lastOp' = "send"
    /\ UNCHANGED <<phase, camera, cams, appVars, smoothVars, orientationListener,
                   zoomCamera, gestureVars, controlsVars, touches, permissionApi,
                   nResets, ticks, mediaVars, videoElement, handlerVars, uv, burst,
                   shellVars, embedVars>>

\* The call of getGeminiResponse awaited by the mounted assistant settles and
\* handleSend continues.  With a resolved promise the assistant's message is
\* appended and setIsLoading(false) follows.  outcome "threw": the GoogleGenAI
\* constructor, which is called before the try block, threw; the promise is
\* rejected and the rest of handleSend does not run.
ResponseSettles(outcome) ==
    /\ phase = "mounted"
    /\ pending > 0
    /\ pending' = pending - 1
    /\ IF outcome = "threw"
       THEN UNCHANGED <<messages, isLoading, replies>>
       ELSE /\ messages' = Append(messages, ResponseMessage(outcome))
            /\ isLoading' = FALSE
            /\ replies' = replies + 1
    /\ uvWrites' = 0
    /\ lastOp' = "response"
    /\ lastArg' = IF outcome = "threw" THEN 0 ELSE 1
    /\ UNCHANGED <<input, orphaned, sent>>
    /\ UNCHANGED <<phase, camera, cams, appVars, smoothVars, orientationListener,
                   zoomCamera, gestureVars, controlsVars, touches, permissionApi,
                   nResets, ticks, mediaVars, videoElement, handlerVars, uv, burst,
                   shellVars, embedVars>>

\* A call awaited by an assistant that has been unmounted settles: the state
\* setters of the unmounted component change nothing.
OrphanSettles ==
    /\ orphaned > 0
    /\ orphaned' = orphaned - 1
    /\ uvWrites' = 0
    /\ lastOp' = "dropped"
    /\ lastArg' = 0
    /\ UNCHANGED <<messages, input, isLoading, pending, sent, replies>>
    /\ UNCHANGED <<phase, camera, cams, appVars, smoothVars, orientationListener,
                   zoomCamera, gestureVars, controlsVars, touches, permissionApi,
                   nResets, ticks, mediaVars, videoElement, handlerVars, uv, burst,
                   shellVars, embedVars>>

----------------------------------------------------------------------------
(* Teardown *)

\* The application is unmounted: every effect's cleanup runs (the orientation
\* effect's and the zoom effect's remove their listeners) and the meshes are
\* disposed.
Unmount ==
    /\ phase = "mounted"
    /\ phase' = "unmounted"
    /\ orientationHandlers' = EffectCleanup(orientationHandlers, orientationListener)
    /\ orientationListener' = FALSE
    /\ zoomHandlers' = EffectCleanup(zoomHandlers, zoomCamera # NoCamera)
    /\ zoomCamera' = NoCamera
    /\ uv' = NoUVs
    /\ timers' = ClearTimeout(timers, controlsTimerRef)
    /\ controlsTimerRef' = IF timers' = timers THEN controlsTimerRef ELSE 0
    /\ ChatCommit(FALSE, isImmersive)
    /\ UNCHANGED <<showControls, isImmersive, isUrlModalOpen, isSettingsOpen, embedVars>>
    /\ uvWrites' = 0
    /\ lastOp' = "unmount"
    /\ lastArg' = 0
    /\ UNCHANGED <<camera, cams, appVars, smoothVars, gestureVars, controlsVars,
                   touches, permissionApi, nResets, ticks, mediaVars, videoElement,
                   burst>>

\* The application is mounted again: new component instances with their initial
\* state, refs and three.js objects; handlers still registered stay registered.
Remount ==
    /\ phase = "unmounted"
    /\ phase' = "rendered"
    /\ camera' = R3FCamera
    /\ cams' = [id \in CameraIds |->
                  [fov |-> DefaultFov,
                   position |-> IF id = R3FCamera THEN R3FDefaultPosition ELSE Origin,
                   up |-> WorldUp,
                   quaternion |-> Identity]]
    /\ isMotionEnabled' = FALSE
    /\ projectionMode' = "dome"
    /\ domeTilt' = 0
    /\ resetCameraTrigger' = 0
    /\ video' = FALSE
    /\ targetQuaternion' = Identity
    /\ currentQuaternion' = Identity
    /\ startDist' = 0
    /\ startFov' = DefaultFov
    /\ controlsObject' = R3FCamera
    /\ controlsEnabled' = TRUE
    /\ position0' = R3FDefaultPosition
    /\ touches' = 0
    /\ nResets' = 0
    /\ capDist' = 0
    /\ capFov' = DefaultFov
    /\ gestureFresh' = FALSE
    /\ ticks' = 0
    /\ errorMsg' = FALSE
    /\ videoElement' = FALSE
    /\ mediaError' = FALSE
    /\ burst' = "none"
    /\ showControls' = TRUE
    /\ isImmersive' = FALSE
    /\ isUrlModalOpen' = FALSE
    /\ isSettingsOpen' = FALSE
    /\ controlsTimerRef' = 0
    /\ videoUrl' = <<>>
    /\ playRequested' = FALSE
    /\ embedded' = <<>>
    /\ UNCHANGED <<timers, chatVars>>
    /\ uvWrites' = 0
    /\ lastOp' = "remount"
    /\ lastArg' = 0
    /\ UNCHANGED <<orientationListener, zoomCamera, permissionApi, handlerVars, uv>>

\* A wheel event on the canvas: it runs handleWheel if the handler is
\* registered, and nothing after the teardown removed it.
WheelEvent(deltaY) ==
    \/ handleWheel(deltaY)
    \/ /\ phase = "unmounted"
       /\ zoomCamera = NoCamera
       /\ UNCHANGED <<shellVars, chatVars, embedVars>>
       /\ uvWrites' = 0
       /\ lastOp' = "wheel"
       /\ lastArg' = 0
       /\ UNCHANGED <<phase, camera, cams, appVars, smoothVars, orientationListener,
                      zoomCamera, gestureVars, controlsVars, touches, permissionApi,
                      nResets, ticks, mediaVars, videoElement, handlerVars, uv, burst>>

----------------------------------------------------------------------------

(* Specifications.  The zoom state (fov, startDist, startFov, touches) and    *)
(* the pose state (position, orientation, smoothing quaternions) meet only   *)
(* in the mount, reset and projection-mode steps, which both specifications  *)
(* take.  SpecZoom explores every gesture input and leaves out the steps     *)
(* that neither read nor write zoom state (motion toggles, orientation       *)
(* samples, frames, orbit drags, tilt changes).  SpecPose explores every     *)
(* orientation and orbit input and takes the wheel as its only zoom input.   *)
(* SpecApp explores the application shell around the mounted scene and      *)
(* SpecLife the registration and removal of the event handlers.              *)

Mount ==
    \/ CommitFirstRender
    \/ CommitCameraChange

AppEvents ==
    \/ \E mode \in ProjectionModes : onProjectionModeChange(mode)
    \/ LoadVideo
    \/ onResetCamera

NextZoom ==
    \/ Mount
    \/ AppEvents
    \/ \E d \in WheelDeltas : handleWheel(d)
    \/ \E k \in 1..MaxTouches, off \in TouchOffsets : handleTouchStart(k, off)
    \/ \E off \in TouchOffsets : handleTouchMove(off)
    \/ \E k \in 1..MaxTouches : TouchEnd(k)

NextPose ==
    \/ Mount
    \/ AppEvents
    \/ \E state \in PermissionStates : requestMotionPermission(state)
    \/ \E val \in TiltValues : onTiltChange(val)
    \/ \E d \in PoseWheelDeltas : handleWheel(d)
    \/ \E a \in Alphas, b \in Betas, g \in Gammas : DeviceOrientation(a, b, g)
    \/ RenderTick
    \/ \E kind \in DragKinds : OrbitDrag(kind)

\* The application shell: query parameters, tilt, projection mode, video
\* loading and playback errors.
NextApp ==
    \/ Mount
    \/ \E text \in TiltParams : ApplyQueryParams(<<>>, text, <<>>, FALSE, <<>>)
    \/ \E val \in SliderValues : onTiltChange(val)
    \/ \E mode \in ProjectionModes : onProjectionModeChange(mode)
    \/ LoadVideo
    \/ \E hasFile \in BOOLEAN : handleFileChange(hasFile)
    \/ handleError
    \/ DismissError

\* The listener lifecycle: mount, motion toggles, teardown and a new mount,
\* with the events that the listeners are registered for.
NextLife ==
    \/ Mount
    \/ Unmount
    \/ Remount
    \/ \E state \in PermissionStates : requestMotionPermission(state)
    \/ \E a \in Alphas, b \in Betas, g \in Gammas : DeviceOrientation(a, b, g)
    \/ \E d \in WheelDeltas : WheelEvent(d)

\* The application shell's visibility state: the auto-hide timer of the
\* controls, the dialogs, the error toast and fullscreen.
NextShell ==
    \/ Mount
    \/ LoadVideo
    \/ UserInteraction
    \/ \E i \in 1..MaxTimers : TimerFires(i)
    \/ ToggleSettings
    \/ OpenUrlModal
    \/ CloseUrlModal
    \/ \E isFs \in BOOLEAN : handleFullscreenChange(isFs)
    \/ handleError
    \/ DismissError

\* The assistant's chat with the fullscreen changes that unmount and mount it
NextChat ==
    \/ Mount
    \/ LoadVideo
    \/ \E text \in InputTexts : setInput(text)
    \/ handleSend
    \/ \E outcome \in Outcomes : ResponseSettles(outcome)
    \/ OrphanSettles
    \/ \E isFs \in BOOLEAN : handleFullscreenChange(isFs)

\* The page opened from an embed code, and the remote-URL dialog
NextEmbed ==
    \/ \E url \in CurrentUrls, tilt \in SliderValues, auto \in BOOLEAN, ready \in BOOLEAN :
          StartFromEmbed(url, tilt, auto, ready)
    \/ Mount
    \/ OpenUrlModal
    \/ CloseUrlModal
    \/ \E url \in RemoteUrls : LaunchUrl(url)

SpecZoom == Init /\ [][NextZoom]_vars
SpecPose == Init /\ [][NextPose]_vars
SpecApp == Init /\ [][NextApp]_vars
SpecLife == Init /\ [][NextLife]_vars
SpecShell == Init /\ [][NextShell]_vars
SpecEmbed == Init /\ [][NextEmbed]_vars
\* Every call of getGeminiResponse settles: generateContent resolves or rejects
SpecChat ==
    /\ Init
    /\ [][NextChat]_vars
    /\ WF_vars(\E outcome \in Outcomes : ResponseSettles(outcome))
    /\ WF_vars(OrphanSettles)

----------------------------------------------------------------------------
(* Claims *)

Cam == cams[camera]
Mounted == phase = "mounted"

\* C1: in every reachable state the field of view of every camera object lies
\* within [30, 120] degrees, whatever wheel, pinch, reset and projection-mode
\* steps led there.
C1_FovInRange ==
    \A id \in CameraIds : cams[id].fov >= 30 * FovScale /\ cams[id].fov <= 120 * FovScale

\* C1 witness: a two-contact touchmove whose unclamped result, twice the start
\* value of more than 60 degrees, exceeds 120 degrees has left fov at the limit.
C1_Witness ==
    /\ lastOp = "touchmove"
    /\ touches = 2
    /\ startDist = 100
    /\ lastArg = 50
    /\ startFov > 60 * FovScale
    /\ Cam.fov = 120 * FovScale

\* C2: orbit and orientation fusion never both write the camera orientation.
\* While motion is disabled no deviceorientation listener is attached, a delivered
\* sample changes neither the smoothing state nor the camera, and a frame leaves
\* the camera looking at the orbit target instead of copying the smoothing
\* quaternion; while motion is enabled the orbit controls are disabled and a
\* frame's orientation is the smoothing quaternion.
C2_MotionExclusive ==
    /\ [](Mounted => /\ (~isMotionEnabled => ~orientationListener)
                     /\ (isMotionEnabled => ~controlsEnabled))
    /\ [][(~isMotionEnabled /\ lastOp' \in {"sample", "nullsample"})
             => UNCHANGED <<cams, targetQuaternion, currentQuaternion>>]_vars
    /\ [][(lastOp' = "tick" /\ ~isMotionEnabled)
             => /\ cams'[camera].quaternion = LookAt(cams'[camera].position)
                /\ currentQuaternion' = currentQuaternion]_vars
    /\ [][(lastOp' = "tick" /\ isMotionEnabled)
             => /\ cams'[camera].quaternion = currentQuaternion'
                /\ cams'[camera].position = Cam.position]_vars
    /\ [][lastOp' = "drag" => ~isMotionEnabled]_vars

\* C2 witness: motion was enabled, a target was set, motion was disabled again,
\* and a complete sample has since been delivered without effect.
C2_Witness ==
    /\ lastOp = "sample"
    /\ ~isMotionEnabled
    /\ targetQuaternion # Identity
    /\ Cam.quaternion = LookAt(Cam.position)

\* The default pose of section 4.5: position (0, -0.07, 0.07), up (0, 1, 0),
\* looking at the origin, field of view 75 degrees.
AtDefaultPose(c) ==
    /\ c.position = <<0, -7, 7>>
    /\ c.up = <<0, 1, 0>>
    /\ c.quaternion = LookAt(<<0, -7, 7>>)
    /\ c.fov = 75 * FovScale

\* C3: when a reset action, or the mount-time pose setup, has completed, the
\* camera is at the default pose with the default field of view.
C3_ResetYieldsDefaultPose ==
    lastOp \in {"reset", "commit2"} => AtDefaultPose(Cam)

\* C4: a reset returns the derived controller state to its defaults: the
\* smoothing quaternions are the identity, the pinch start values are 0 and 75.
C4_ResetClearsDerivedState ==
    lastOp = "reset" =>
        /\ targetQuaternion = Identity
        /\ currentQuaternion = Identity
        /\ startDist = 0
        /\ startFov = 75 * FovScale

\* C5: the reset signal only ever grows, by exactly one per press of Reset View,
\* and each increment runs the reset logic exactly once.
C5_OneResetPerPress ==
    [][/\ resetCameraTrigger' >= resetCameraTrigger
       /\ (lastOp' = "reset" => resetCameraTrigger' = resetCameraTrigger + 1)
       /\ (resetCameraTrigger' # resetCameraTrigger =>
              /\ lastOp' = "reset"
              /\ resetCameraTrigger' = resetCameraTrigger + 1
              /\ nResets' = nResets + 1)]_vars

\* C5 witness: Reset View has been pressed twice and the reset logic ran twice.
C5_Witness ==
    /\ lastOp = "reset"
    /\ resetCameraTrigger = 2
    /\ nResets = 2

C7_NullSampleDiscarded ==
    /\ [][lastOp' = "nullsample"
             => UNCHANGED <<targetQuaternion, currentQuaternion, cams>>]_vars
    /\ [][targetQuaternion' # targetQuaternion => lastOp' = "sample"]_vars

\* C7 witness: with the listener attached and a target set by an earlier sample,
\* a sample with a null angle has been delivered and the target is still there.
C7_Witness ==
    /\ lastOp = "nullsample"
    /\ orientationListener
    /\ targetQuaternion # Identity

\* C8: a touchmove changes the field of view only with start values captured
\* in the current two-finger sequence, i.e. since the contacts last fell below two.
C8_GestureStateInvalidated ==
    [][(lastOp' = "touchmove" /\ cams' # cams) => gestureFresh]_vars

\* C9: after a two-contact touchstart at distance capDist > 0 taken at field of
\* view capFov, a two-contact touchmove at distance dist leaves
\* fov = clamp(capFov * capDist / dist, 30, 120) (the quotient rounded down to a
\* model unit, and beyond any limit when dist = 0), so it is at most capFov when
\* dist > capDist and at least capFov when dist < capDist; a touchstart, and a
\* touchmove with another number of contacts, leaves every camera as it was.
C9_PinchResult ==
    /\ [][(lastOp' = "touchmove" /\ touches = 2 /\ capDist > 0) =>
            LET f == cams'[camera].fov
                product == capFov * capDist
                dist == lastArg'
                lo == 30 * FovScale
                hi == 120 * FovScale
            IN  /\ lo <= f /\ f <= hi
                /\ f > lo => f * dist <= product
                /\ f < hi => product < (f + 1) * dist
                /\ dist > capDist => f <= capFov
                /\ dist < capDist => f >= capFov]_vars
    /\ [][lastOp' = "touchstart" => cams' = cams]_vars
    /\ [][(lastOp' = "touchmove" /\ touches # 2) => cams' = cams]_vars

\* C9 witness: the example of the specification: start at 75 degrees with the
\* contacts 100 apart, move to 50 apart, fov is 120.
C9_Witness ==
    /\ lastOp = "touchmove"
    /\ touches = 2
    /\ capFov = 75 * FovScale
    /\ capDist = 100
    /\ lastArg = 50
    /\ Cam.fov = 120 * FovScale

\* C10: a projection-mode change sets the field of view to 75 degrees and
\* leaves position, up vector and orientation of the camera as they were.
C10_ModeChangeKeepsPose ==
    [][lastOp' = "mode" =>
          /\ projectionMode' # projectionMode
          /\ cams'[camera].fov = 75 * FovScale
          /\ cams'[camera].position = Cam.position
          /\ cams'[camera].up = Cam.up
          /\ cams'[camera].quaternion = Cam.quaternion]_vars

\* C10 witness: the mode has been changed while the camera was away from the
\* default pose, and it still is.
C10_Witness ==
    /\ lastOp = "mode"
    /\ Cam.position # <<0, -7, 7>>
    /\ Cam.quaternion # LookAt(<<0, -7, 7>>)
    /\ Cam.fov = 75 * FovScale

\* The hasVideo prop App hands to Scene, and the material Scene renders with it
HasVideo == video /\ ~errorMsg
RenderedMaterial == Material(projectionMode, HasVideo, videoElement)

\* C11: hasVideo is true only when a video has been loaded and the video
\* element has reported no error since its source was last set; while such an
\* error is active the scene renders a fallback material, not the video texture.
C11_HasVideoOnlyWithoutError ==
    /\ HasVideo => (video /\ ~mediaError)
    /\ mediaError => RenderedMaterial.kind # "videoTexture"

\* C12: the material is a function of (projectionMode, hasVideo, videoElement):
\* the video texture exactly when hasVideo is set and a video element exists,
\* otherwise the gradient shader in dome mode and the flat colour in flat mode;
\* the dome material is single-sided (interior), the flat material double-sided;
\* and no state without a loaded video renders the video texture.
C12_MaterialSelection ==
    /\ \A mode \in {"dome", "flat"}, h \in BOOLEAN, e \in BOOLEAN :
          LET m == Material(mode, h, e)
          IN  /\ (m.kind = "videoTexture") <=> (h /\ e)
              /\ (~(h /\ e) /\ mode = "dome") => m.kind = "gradientShader"
              /\ (~(h /\ e) /\ mode = "flat") => m.kind = "flatColor"
              /\ mode = "dome" => m.side = "BackSide"
              /\ mode = "flat" => m.side = "DoubleSide"
    /\ (RenderedMaterial.kind = "videoTexture") <=> (HasVideo /\ videoElement)
    /\ ~video => RenderedMaterial.kind # "videoTexture"
    /\ ~HasVideo => RenderedMaterial.kind =
                       (IF projectionMode = "dome" THEN "gradientShader" ELSE "flatColor")

\* C12 witness: in flat mode a loaded video is rendered through the
\* double-sided video material.
C12_Witness ==
    /\ Mounted
    /\ projectionMode = "flat"
    /\ video
    /\ ~errorMsg
    /\ videoElement
    /\ RenderedMaterial = [kind |-> "videoTexture", side |-> "DoubleSide"]

\* C13: while motion is disabled, and after the scene is torn down, no
\* deviceorientation handler is registered; after the teardown no wheel,
\* touchstart or touchmove handler is registered; across motion toggles, the
\* camera replacement of the mount, teardown and new mounts at most one handler
\* of each kind is registered; and no event delivered after the teardown
\* changes the target orientation or any camera's field of view.
C13_ListenerLifecycle ==
    /\ []((~isMotionEnabled \/ phase = "unmounted")
             => (orientationHandlers = 0 /\ ~orientationListener))
    /\ [](phase = "unmounted" => (zoomHandlers = 0 /\ zoomCamera = NoCamera))
    /\ [](orientationHandlers <= 1 /\ zoomHandlers <= 1)
    /\ [](Mounted => (zoomHandlers = 1 /\ (isMotionEnabled => orientationHandlers = 1)))
    /\ [][(phase = "unmounted" /\ lastOp' \in {"wheel", "sample", "nullsample"})
             => UNCHANGED <<targetQuaternion, currentQuaternion, cams>>]_vars

\* C13 witness: motion was enabled, a sample with beta 0 set the target, the
\* scene was torn down with motion still enabled, and a complete sample with
\* beta 90 has since been delivered without effect.
C13_Witness ==
    /\ phase = "unmounted"
    /\ lastOp = "sample"
    /\ lastArg = 90
    /\ isMotionEnabled
    /\ targetQuaternion = <<0, -Deg(90)>>
    /\ orientationHandlers = 0
    /\ zoomHandlers = 0

\* C14: in dome mode the rendered surface is rotated about the X axis by
\* exactly domeTilt degrees converted to radians, with zero rotation about the
\* other axes, for every integer domeTilt (values outside [-90, 90] included:
\* the scene does not clamp); in flat mode the surface's rotation is the same
\* for every domeTilt.
C14_TiltRotation ==
    /\ projectionMode = "dome" =>
          SurfaceRotation(projectionMode, domeTilt) = <<domeTilt * 1000, 0, 0>>
    /\ \A t \in -200..200 :
          /\ SurfaceRotation("dome", t) = <<t * 1000, 0, 0>>
          /\ SurfaceRotation("flat", t) = SurfaceRotation("flat", domeTilt)

\* C14 witness: the scene is mounted in dome mode with a tilt of 120 degrees,
\* taken from the query string.
C14_Witness ==
    /\ Mounted
    /\ projectionMode = "dome"
    /\ domeTilt = 120
    /\ SurfaceRotation(projectionMode, domeTilt) = <<120000, 0, 0>>

\* C15: the domeTilt handed to the scene is always an integer within
\* [-90, 90], whatever the tilt slider delivered and whatever text the `tilt`
\* query parameter held.
C15_TiltInDomain == domeTilt \in -90..90

\* C16: the orbit controls are enabled exactly when motion is disabled, and an
\* orbit drag, like every frame's update of the orbit controls, leaves the
\* camera's field of view and position as they were: only its orientation
\* changes.
C16_OrbitKeepsPosition ==
    /\ [](Mounted => (controlsEnabled <=> ~isMotionEnabled))
    /\ [][lastOp' \in {"drag", "tick"}
             => /\ cams'[camera].fov = Cam.fov
                /\ cams'[camera].position = Cam.position]_vars

\* C17: with motion enabled, a frame reduces the angular distance between the
\* smoothed orientation and the target by the factor 0.1, whatever time has
\* passed: the distance d becomes 0.9 d (up to the model's rounding of the step
\* to a whole unit of 1/10 degree), which is smaller than d and not zero, the
\* smoothed orientation stays on the same side of the target, and the camera's
\* orientation after the frame is the smoothed orientation.
C17_SmoothingDecay ==
    [][(lastOp' = "tick" /\ isMotionEnabled) =>
          LET d == Abs(targetQuaternion[2] - currentQuaternion[2])
              dNext == Abs(targetQuaternion'[2] - currentQuaternion'[2])
          IN  /\ targetQuaternion' = targetQuaternion
              /\ 9 * d <= 10 * dNext /\ 10 * dNext <= 9 * d + 9
              /\ d >= 10 => dNext < d
              /\ d > 0 => dNext > 0
              /\ (targetQuaternion[2] - currentQuaternion[2])
                    * (targetQuaternion'[2] - currentQuaternion'[2]) >= 0
              /\ currentQuaternion'[1] = targetQuaternion[1]
              /\ cams'[camera].quaternion = currentQuaternion']_vars

\* C17 witness: two frames after a sample put the target 90 degrees away, the
\* distance is 90 * 0.9 * 0.9 = 72.9 degrees.
C17_Witness ==
    /\ lastOp = "tick"
    /\ isMotionEnabled
    /\ ticks = 2
    /\ targetQuaternion = <<0, -900>>
    /\ currentQuaternion = <<0, -171>>
    /\ Cam.quaternion = <<0, -171>>

\* C18: for every vertex of the dome mesh, with polar angle theta between 0 (the
\* zenith) and 90 degrees (the horizon), r = theta / pi lies in [0, 0.5], the
\* texture coordinates written for it lie in [0, 1] x [0, 1], and every zenith
\* vertex gets exactly (0.5, 0.5).
C18_DomeUVInRange ==
    /\ \A theta \in VertexThetas :
          /\ 0 <= DomeRadius(theta) /\ DomeRadius(theta) <= 500
          /\ (theta = 90) => DomeRadius(theta) = 500
    /\ (Mounted /\ projectionMode = "dome") =>
          /\ DOMAIN uv = Vertices
          /\ \A vtx \in Vertices :
                /\ 0 <= uv[vtx][1] /\ uv[vtx][1] <= 1000
                /\ 0 <= uv[vtx][2] /\ uv[vtx][2] <= 1000
                /\ (vtx[1] = 0) => uv[vtx] = <<500, 500>>

\* C18 witness: the dome is mounted and its horizon vertices lie on the rim of
\* the texture: azimuth 0 at (0, 0.5), azimuth 90 degrees at (0.5, 1).
C18_Witness ==
    /\ Mounted
    /\ projectionMode = "dome"
    /\ lastOp = "mode"
    /\ uv[<<90, 0>>] = <<0, 500>>
    /\ uv[<<90, 90>>] = <<500, 1000>>
    /\ uv[<<45, 180>>] = <<750, 500>>
    /\ uv[<<0, 270>>] = <<500, 500>>

\* C19: a delivered sample writes nothing but the target orientation, and the
\* target it leaves is built from that sample alone (the last one wins, nothing
\* is queued); the smoothed orientation changes only in a frame, where the
\* camera's orientation is copied from it; and a frame that follows several
\* samples moves the smoothed orientation toward the target of the latest one.
C19_SamplesOnlySetTarget ==
    /\ [][lastOp' \in {"sample", "nullsample"}
             => UNCHANGED <<currentQuaternion, cams>>]_vars
    /\ [][(lastOp' = "sample" /\ orientationListener)
             => targetQuaternion' = <<0, Deg(lastArg') - Deg(90)>>]_vars
    /\ [][currentQuaternion' # currentQuaternion
             => /\ lastOp' = "tick"
                /\ isMotionEnabled
                /\ targetQuaternion' = targetQuaternion
                /\ cams'[camera].quaternion = currentQuaternion'
                /\ Abs(targetQuaternion[2] - currentQuaternion'[2])
                      < Abs(targetQuaternion[2] - currentQuaternion[2])]_vars

\* C19 witness: with the smoothed orientation still at the identity, several
\* complete samples were handled, the latest with beta 0 (target 90 degrees
\* away), and the frame that followed moved a tenth of the way to that target.
C19_Witness ==
    /\ lastOp = "tick"
    /\ burst = "tickedSeveral"
    /\ isMotionEnabled
    /\ ticks = 1
    /\ targetQuaternion = <<0, -900>>
    /\ currentQuaternion = <<0, -90>>
    /\ Cam.quaternion = currentQuaternion

\* C20: whenever handleTouchMove computes startDist / dist (two contacts and
\* startDist > 0), the divisor dist is not zero.
C20_PinchDivisorNonZero ==
    [][(lastOp' = "touchmove" /\ touches = 2 /\ startDist > 0) => lastArg' # 0]_vars

\* C21: the dome's uv attribute is written exactly once per construction of the
\* dome mesh, i.e. in the first commit and in a change to dome mode, and in no
\* other step: frames, tilt changes, video loads, motion toggles, zoom gestures,
\* resets, drags and samples neither run the mapping nor change the attribute.
C21_UVComputedOncePerMount ==
    /\ [](uvWrites = IF /\ projectionMode = "dome"
                        /\ lastOp \in {"commit1", "mode"} THEN 1 ELSE 0)
    /\ [][uv' # uv => lastOp' \in {"commit1", "mode"}]_vars
    /\ [][lastOp' \in {"tick", "tilt", "load", "motion", "wheel", "reset", "drag",
                       "touchstart", "touchmove", "touchend",
                       "sample", "nullsample", "commit2"}
             => (uv' = uv /\ uvWrites' = 0)]_vars

\* C21 witness: the dome is shown tilted by 90 degrees; the tilt change that
\* led here did not run the mapping and the attribute is the one written at
\* the mount.
C21_Witness ==
    /\ lastOp = "tilt"
    /\ projectionMode = "dome"
    /\ domeTilt = 90
    /\ uvWrites = 0
    /\ uv = DomeUVs

\* C22: where the platform has a permission request, an invocation of
\* requestMotionPermission leaves isMotionEnabled true if the request was
\* granted and unchanged otherwise, so it never sets it back to false; where
\* it has none, each invocation flips isMotionEnabled.  Nothing else changes
\* the flag: on a platform of the first kind motion, once enabled, stays enabled.
C22_MotionToggle ==
    /\ [][lastOp' = "motion" =>
             IF permissionApi
             THEN isMotionEnabled' = (isMotionEnabled \/ lastArg' = 1)
             ELSE isMotionEnabled' = ~isMotionEnabled]_vars
    /\ [][isMotionEnabled' # isMotionEnabled => lastOp' = "motion"]_vars
    /\ [][(permissionApi /\ isMotionEnabled) => isMotionEnabled']_vars

\* C22 witness: on a platform with a permission request, motion is enabled
\* and a further request that was not granted has left it enabled.
C22_Witness ==
    /\ permissionApi
    /\ lastOp = "motion"
    /\ lastArg = 0
    /\ isMotionEnabled

\* C23: the smoothing quaternions start as the identity, a motion toggle
\* leaves both as they are, no step copies the camera's orientation into them
\* (the smoothed one changes only in a frame with motion enabled), and such a
\* frame sets the camera's orientation to slerp(current, target, 0.1) of the
\* retained values, whatever the camera's orientation was.
C23_SmoothingStateRetained ==
    /\ [](lastOp = "init" => (targetQuaternion = <<0, 0>> /\ currentQuaternion = <<0, 0>>))
    /\ [][lastOp' = "motion" => UNCHANGED <<targetQuaternion, currentQuaternion>>]_vars
    /\ [][currentQuaternion' # currentQuaternion
             => (lastOp' = "tick" /\ isMotionEnabled)]_vars
    /\ [][(lastOp' = "tick" /\ isMotionEnabled) =>
             LET d == targetQuaternion[2] - currentQuaternion[2]
                 step == IF d >= 0 THEN d \div 10 ELSE -((-d) \div 10)
             IN  /\ currentQuaternion' = <<currentQuaternion[1], currentQuaternion[2] + step>>
                 /\ cams'[camera].quaternion = currentQuaternion']_vars

\* C23 witness: motion was enabled and a sample set the target; motion was
\* disabled, an orbit drag turned the camera, motion was enabled again, and the
\* second smoothing frame continued from the retained value (9 degrees toward
\* the target 90 degrees away) instead of the camera's orientation.
C23_Witness ==
    /\ lastOp = "tick"
    /\ isMotionEnabled
    /\ ~permissionApi
    /\ ticks = 2
    /\ targetQuaternion = <<0, -900>>
    /\ currentQuaternion = <<0, -171>>
    /\ Cam.position # <<0, -7, 7>>
    /\ Cam.quaternion = currentQuaternion

\* C25: at most one hide timer is pending at any time; a timer that fires while
\* the URL dialog or the settings panel is open or an error message is set
\* leaves the controls' visibility as it is; in immersive mode a user
\* interaction neither shows the controls nor arms a timer; and leaving
\* fullscreen makes the controls visible.
C25_ControlsAutoHide ==
    /\ [](Len(timers) <= 1)
    /\ [][(lastOp' = "timeout" /\ (isUrlModalOpen \/ isSettingsOpen \/ errorMsg))
             => showControls' = showControls]_vars
    /\ [][(lastOp' = "interact" /\ isImmersive)
             => UNCHANGED <<showControls, timers, controlsTimerRef>>]_vars
    /\ [][(lastOp' = "fullscreen" /\ isImmersive /\ ~isImmersive') => showControls']_vars

\* C25 witness: the timer armed when the settings panel was opened has expired
\* with the panel still open and an error shown; the controls stayed visible
\* and no timer is pending.
C25_Witness ==
    /\ lastOp = "timeout"
    /\ isSettingsOpen
    /\ errorMsg
    /\ ~isImmersive
    /\ showControls
    /\ timers = <<>>

\* C24: a send with non-blank input while not loading appends exactly one user
\* message and sets isLoading, and is eventually followed by exactly one
\* appended assistant message with isLoading false again, also when the model
\* call fails; any other send changes nothing; at most one request of the
\* assistant is outstanding, and after the greeting user and assistant
\* messages alternate.
C24_ChatProtocol ==
    /\ [][lastOp' = "send" =>
             IF Trim(input) # <<>> /\ ~isLoading
             THEN /\ messages' = Append(messages, "user")
                  /\ isLoading'
                  /\ sent' = sent + 1
             ELSE UNCHANGED chatVars]_vars
    /\ [](pending <= 1)
    /\ [](\A i \in 1..Len(messages) :
             Role(messages[i]) = IF i % 2 = 1 THEN "assistant" ELSE "user")
    /\ [](replies <= sent)
    /\ (isLoading ~> (~isLoading /\ replies = sent))

\* C26: after the page was started with the query string that generateEmbedCode
\* produces for a remote video URL, a tilt and an autoplay setting, the
\* application has loaded that URL, domeTilt is that tilt and play() was
\* requested exactly if autoplay was on; for an empty or blob URL no embed code
\* is produced and nothing is copied.
C26_EmbedRoundTrip ==
    /\ (lastOp = "query" /\ embedded # <<>>)
          => /\ videoUrl = embedded[1]
             /\ domeTilt = embedded[2]
             /\ playRequested = embedded[3]
    /\ \A url \in {<<>>, BlobUrl}, tilt \in SliderValues, auto \in BOOLEAN :
          /\ ~generateEmbedCode(url, tilt, auto).iframe
          /\ copyToClipboard(url, tilt, auto) = <<>>

====
